---- MODULE Spec2Model ----
(***************************************************************************)
(* A model of goapigen (zeek-r/goapigen): the generation pipeline and its  *)
(* file merge protocol, the HTTP operation resolver, the schema type       *)
(* mapper, the domain type builder and the CRUD classification.            *)
(*                                                                         *)
(* Two drivers run the generation steps over one output directory:         *)
(*   entry = "cli"  : cli.GenerationPipeline.Execute (its generation       *)
(*                    steps after init are stubs that return nil)          *)
(*   entry = "main" : func main of the goapigen command                    *)
(* Spec runs the chosen driver twice over the same output directory.       *)
(* Schema resolution fails when the named schema is not in the document;   *)
(* project initialisation (both drivers) and handler generation (main) may *)
(* fail for reasons outside the model and do so nondeterministically.      *)
(* MapSpec runs the schema type mapper on a schema graph, OpSpec runs the  *)
(* operation resolver on one operation.  TagSpec runs generateFieldTags on *)
(* one property, TypeSpec runs GenerateTypes on a schema map, ReqSpec runs *)
(* the request type part of prepareOperationData on one operation, and     *)
(* CrudSpec runs GetCrudOperationsForSchema on a document of two paths.    *)
(* WireSpec runs MainGenerator.GenerateWithFeatures several times on one   *)
(* schema map and keeps the resources of each wiring file in the order of  *)
(* the range; BodySpec runs the request body and response part of          *)
(* prepareOperationData on one operation, over every order of its media    *)
(* types.                                                                  *)
(*                                                                         *)
(* Not represented: go.mod / go.sum (written by the go tool, not by a      *)
(* generator), directory creation, a step that fails after it has written  *)
(* some of its files, the per-schema errors that main logs and skips in    *)
(* its service and repository loops, and the order in which a Go map range *)
(* visits the schemas inside one rendered file of the pipeline (there the  *)
(* template data holds the resources as a set; WireSpec holds the order).  *)
(***************************************************************************)
EXTENDS Integers, Sequences, FiniteSets, TLC

VARIABLES
    doc,          \* the loaded OpenAPI document (parser.OpenAPIParser.Doc)
    entry,        \* which driver runs: "cli" or "main"
    prev,         \* the previous run over this directory: its Overwrite flag, how it ended
    cfg,          \* GenerationConfig / the parsed command line of the current run
    pc,           \* position of the current run
    fs,           \* output directory: path -> content
    fs0,          \* fs when the current run started
    schemaNames,  \* the local schemaNames of Execute / main
    trace,        \* the steps the current run has executed, in order
    err,          \* the error the current run ended with
    wrote,        \* paths passed to os.WriteFile by the current run
    mapGraph,     \* type mapper: the schema graph being mapped (node 1 is the argument)
    mapNested,    \* type mapper: the allowNested argument of the outermost call
    mapStack,     \* type mapper: the call stack
    mapResult,    \* type mapper: the returned type expression
    mapState,     \* type mapper: "idle", "running", "returned", "overflow"
    opIn,         \* operation resolver: the operation handed to prepareOperationData
    opOut,        \* operation resolver: the OperationData it returned
    tagIn,        \* field tags: the arguments of generateFieldTags
    tagOut,       \* field tags: the tag string it returned
    tyIn,         \* domain type builder: the schema map GetSchemas returns
    tyOut,        \* domain type builder: the template data of each GenerateTypes call
    reqIn,        \* request synthesis: the operation handed to prepareOperationData
    reqOut,       \* request synthesis: the OperationData it returned
    crudIn,       \* CRUD classification: the paths of the document
    crudOut,      \* CRUD classification: the map GetCrudOperationsForSchema returned
    wireIn,       \* wiring data: the schema names of the parser and the feature flags
    wireOut,      \* wiring data: the template data of each GenerateWithFeatures call
    bodyIn,       \* bodies: the request body and the success response of an operation
    bodyOut       \* bodies: the OperationData prepareOperationData returned for them

pipeVars == <<doc, entry, prev, cfg, pc, fs, fs0, schemaNames, trace, err, wrote>>
mapVars == <<mapGraph, mapNested, mapStack, mapResult, mapState>>
opVars == <<opIn, opOut>>
tagVars == <<tagIn, tagOut>>
tyVars == <<tyIn, tyOut>>
reqVars == <<reqIn, reqOut>>
crudVars == <<crudIn, crudOut>>
wireVars == <<wireIn, wireOut>>
bodyVars == <<bodyIn, bodyOut>>
genVars == <<tagVars, tyVars, reqVars, crudVars, wireVars, bodyVars>>
vars == <<doc, entry, prev, cfg, pc, fs, fs0, schemaNames, trace, err, wrote,
          mapGraph, mapNested, mapStack, mapResult, mapState, opIn, opOut,
          tagIn, tagOut, tyIn, tyOut, reqIn, reqOut, crudIn, crudOut,
          wireIn, wireOut, bodyIn, bodyOut>>

(***************************************************************************)
(* Bounds                                                                  *)
(***************************************************************************)
MaxSchemas == 2
\* deepest chain of schemas handed to the type mapper
MaxDepth == 3
\* most responses one operation declares
MaxResponses == 2

(***************************************************************************)
(* Strings                                                                 *)
(***************************************************************************)
UpperAlpha == "ABCDEFGHIJKLMNOPQRSTUVWXYZ"
LowerAlpha == "abcdefghijklmnopqrstuvwxyz"

CharAt(s, i) == SubSeq(s, i, i)

IndexIn(alpha, c) ==
    IF \E i \in 1..Len(alpha) : CharAt(alpha, i) = c
    THEN CHOOSE i \in 1..Len(alpha) : CharAt(alpha, i) = c
    ELSE 0

LowerChar(c) ==
    LET i == IndexIn(UpperAlpha, c) IN IF i = 0 THEN c ELSE CharAt(LowerAlpha, i)

RECURSIVE ToLower(_)
ToLower(s) ==
    IF Len(s) = 0 THEN "" ELSE LowerChar(CharAt(s, 1)) \o ToLower(SubSeq(s, 2, Len(s)))

HasSuffix(s, suffix) ==
    /\ Len(s) >= Len(suffix)
    /\ SubSeq(s, Len(s) - Len(suffix) + 1, Len(s)) = suffix

HasPrefix(s, prefix) ==
    /\ Len(s) >= Len(prefix)
    /\ SubSeq(s, 1, Len(prefix)) = prefix

Join(dir, name) == dir \o "/" \o name

(***************************************************************************)
(* internal/config: directory and file names                               *)
(***************************************************************************)
DomainDir == "internal/pkg/domain"
ServicesDir == "internal/services"
HttpAdaptersDir == "internal/adapters/http"
MongoAdaptersDir == "internal/adapters/repository"
HttpUtilDir == "internal/pkg/httputil"
TypesFile == "types.go"
ErrorsFile == "errors.go"
EnvFile == ".env"
\* filepath.Join(outputDir, "cmd", filepath.Base(targetModule)), module "app"
CmdDir == "cmd/app"

(***************************************************************************)
(* The OpenAPI document as the pipeline sees it.  Components.Schemas maps  *)
(* a name to "ok" (a SchemaRef with a Value), "nilRef" (a nil SchemaRef)   *)
(* or "nilValue" (a SchemaRef whose Value is nil); the paths carry one     *)
(* operation per usable schema, tagged with the schema name.               *)
(***************************************************************************)
SchemaPool == <<"Pet", "Order", "User", "Tag">>
PoolNames == {SchemaPool[i] : i \in 1..MaxSchemas}
\* a name no document of the family declares
MissingName == SchemaPool[MaxSchemas + 1]

OperationIDOf(name) == "list" \o name \o "s"

MkDoc(k, last) ==
    LET comps == [n \in {SchemaPool[i] : i \in 1..k} |->
                    IF n = SchemaPool[k] THEN last ELSE "ok"]
    IN  [schemas |-> comps,
         ops |-> {[id |-> OperationIDOf(n), tag |-> n] :
                    n \in {m \in DOMAIN comps : comps[m] = "ok"}}]

Documents ==
    {MkDoc(MaxSchemas, last) : last \in {"ok", "nilRef", "nilValue"}}

\* parser.GetSchemas: the names of the returned map
GetSchemas(d) == {n \in DOMAIN d.schemas : d.schemas[n] = "ok"}

GetSchemaByNameNoNilCheck(d, name) == name \in DOMAIN d.schemas

\* parser.GetSchemaByName: the "exists" result
GetSchemaByName(d, name) ==
    /\ name \in DOMAIN d.schemas
    /\ d.schemas[name] # "nilRef"
    /\ d.schemas[name] # "nilValue"

\* parser.GetOperations
GetOperations(d) == d.ops

(***************************************************************************)
(* File contents: the template that rendered the file and the data handed  *)
(* to it.                                                                  *)
(***************************************************************************)
Absent == [tmpl |-> "", data |-> [absent |-> TRUE]]
Rendered(t, d) == [tmpl |-> t, data |-> d]
Exists(f, p) == f[p] # Absent

\* strings.ToLower on the words the documents hold, computed once
LowerTable ==
    [w \in PoolNames \cup {OperationIDOf(n) : n \in PoolNames} |-> ToLower(w)]
Lower(w) == LowerTable[w]

\* every path a run can write
HandlerDirOf(tag) == Join(HttpAdaptersDir, Lower(tag))
MainPaths == {Join(CmdDir, "main.go"), Join(CmdDir, "routes.go"), Join(CmdDir, "database.go")}
TypesPath == Join(DomainDir, TypesFile)
ErrorsPath == Join(DomainDir, ErrorsFile)
DomainPaths == {TypesPath, ErrorsPath}
ServicePathTable ==
    [n \in PoolNames |->
        {Join(Join(ServicesDir, Lower(n)), Lower(n) \o "_service.go"),
         Join(Join(ServicesDir, Lower(n)), Lower(n) \o "_service_test.go")}]
ServicePaths(n) == ServicePathTable[n]
RepositoryPathTable ==
    [n \in PoolNames |->
        {Join(Join(MongoAdaptersDir, Lower(n)), Lower(n) \o "_repository.go"),
         Join(Join(MongoAdaptersDir, Lower(n)), Lower(n) \o "_repository_test.go")}]
RepositoryPaths(n) == RepositoryPathTable[n]
HandlerPathTable ==
    [n \in PoolNames |->
        {Join(HandlerDirOf(n), Lower(OperationIDOf(n)) \o "_handler.go"),
         Join(HandlerDirOf(n), Lower(OperationIDOf(n)) \o "_handler_test.go"),
         Join(HandlerDirOf(n), "mocks/mock_service.go"),
         Join(HandlerDirOf(n), "handler.go")}]
HandlerPaths(n) == HandlerPathTable[n]
HttpUtilPaths == {Join(HttpUtilDir, "http_utils.go"), Join(HttpUtilDir, "handler_wrapper.go")}
AllPaths ==
    MainPaths \cup DomainPaths \cup HttpUtilPaths \cup {EnvFile}
    \cup UNION {ServicePaths(n) \cup RepositoryPaths(n) \cup HandlerPaths(n) : n \in PoolNames}

EmptyDir == [p \in AllPaths |-> Absent]

\* files: a map from path to content; the paths of AllPaths it holds
Apply(f, files) == [p \in DOMAIN f |-> IF p \in DOMAIN files THEN files[p] ELSE f[p]]
NoFiles == [p \in {} |-> Absent]
Only(files, keep) == [p \in (DOMAIN files) \cap keep |-> files[p]]

(***************************************************************************)
(* generator.MainGenerator: main.go, routes.go and database.go             *)
(***************************************************************************)
ResourceWords ==
    [n \in PoolNames |->
        [VarName |-> Lower(n), CollectionName |-> Lower(n) \o "s", APIPath |-> Lower(n) \o "s"]]

MainResourceData(name, hasRepo, hasServices, hasHandler) ==
    [Name |-> name,
     VarName |-> ResourceWords[name].VarName,
     CollectionName |-> ResourceWords[name].CollectionName,
     APIPath |-> ResourceWords[name].APIPath,
     HasRepository |-> hasRepo,
     HasService |-> hasServices,
     HasHandler |-> hasHandler]

\* the resources loop and the MainTemplateData literal shared by the three generators
MainTemplateData(d, useMongo, hasRepo, hasServices, hasHandler) ==
    LET resources == {MainResourceData(n, hasRepo, hasServices, hasHandler) : n \in GetSchemas(d)}
    IN  [UseMongo |-> useMongo,
         HasResources |-> Cardinality(resources) > 0,
         Resources |-> resources]

GenerateMainFile(d, useMongo, hasRepo, hasServices, hasHandler) ==
    Rendered("templates/cmd/main.go.tmpl",
             MainTemplateData(d, useMongo, hasRepo, hasServices, hasHandler))

GenerateRoutesFile(d, useMongo, hasRepo, hasServices, hasHandler) ==
    Rendered("templates/cmd/routes.go.tmpl",
             MainTemplateData(d, useMongo, hasRepo, hasServices, hasHandler))

GenerateDatabaseFile(d, useMongo, hasRepo, hasServices, hasHandler) ==
    Rendered("templates/cmd/database.go.tmpl",
             MainTemplateData(d, useMongo, hasRepo, hasServices, hasHandler))

\* filename -> content
GenerateWithFeatures(d, useMongo, hasRepo, hasServices, hasHandler) ==
    [n \in {"main.go", "routes.go", "database.go"} |->
        CASE n = "main.go" -> GenerateMainFile(d, useMongo, hasRepo, hasServices, hasHandler)
          [] n = "routes.go" -> GenerateRoutesFile(d, useMongo, hasRepo, hasServices, hasHandler)
          [] n = "database.go" -> GenerateDatabaseFile(d, useMongo, hasRepo, hasServices, hasHandler)]

GenerateMain(d) ==
    [n \in {"main.go", "routes.go", "database.go"} |->
        CASE n = "main.go" -> GenerateMainFile(d, FALSE, FALSE, FALSE, FALSE)
          [] n = "routes.go" -> GenerateRoutesFile(d, FALSE, FALSE, FALSE, FALSE)
          [] n = "database.go" -> GenerateDatabaseFile(d, FALSE, FALSE, FALSE, FALSE)]

\* the files of a filename -> content map that pass `should`, keyed by path under CmdDir
CmdPath == [n \in {"main.go", "routes.go", "database.go"} |-> Join(CmdDir, n)]
CmdWrites(files, names) ==
    [p \in {CmdPath[n] : n \in names} |-> files[CHOOSE n \in names : CmdPath[n] = p]]

(***************************************************************************)
(* cli.GenerationPipeline                                                  *)
(***************************************************************************)
ShouldWriteAlways(overwrite, filename, exists) == TRUE

ShouldWriteRoutesOnly(overwrite, filename, exists) ==
    IF HasSuffix(filename, "routes.go") THEN TRUE
    ELSE IF ~exists THEN TRUE ELSE overwrite

\* writeMainFiles: shouldWrite for one file
ShouldWrite(overwrite, filename, exists) ==
    IF HasSuffix(filename, "routes.go") \/ HasSuffix(filename, "database.go")
    THEN TRUE
    ELSE IF ~exists THEN TRUE ELSE overwrite

\* writeMainFiles: the names written when no write fails
MainFilesToWrite(c, files, f) ==
    {n \in DOMAIN files : ShouldWrite(c.Overwrite, n, Exists(f, CmdPath[n]))}

\* generateMainFiles: the files handed to writeMainFiles
GenerateMainFiles(d, c) ==
    LET hasServices == c.GenServices \/ c.GenHTTP
    IN  GenerateWithFeatures(d, c.GenMongo, c.GenMongo, hasServices, c.GenHTTP)

ExecuteGateServicesOnly(step, c) ==
    CASE step = "init" -> c.InitProject
      [] step = "types" -> c.GenTypes
      [] step = "services" -> c.GenServices
      [] step = "mongo" -> c.GenMongo
      [] step = "http" -> c.GenHTTP
      [] step = "regen" -> c.GenServices \/ c.GenMongo \/ c.GenHTTP \/ c.InitProject
      [] step = "env" -> c.InitProject
      [] OTHER -> TRUE

\* Execute: which steps the configuration asks for
ExecuteGate(step, c) ==
    CASE step = "init" -> c.InitProject
      [] step = "types" -> c.GenTypes
      [] step = "services" -> c.GenServices \/ c.GenHTTP
      [] step = "mongo" -> c.GenMongo
      [] step = "http" -> c.GenHTTP
      [] step = "regen" -> c.GenServices \/ c.GenMongo \/ c.GenHTTP \/ c.InitProject
      [] step = "env" -> c.InitProject
      [] OTHER -> TRUE

ExecuteOrder == <<"resolve", "init", "types", "services", "mongo", "http", "regen", "env">>

\* Execute: the context each step's error is wrapped in ("" when returned as is)
ExecuteContextGeneric(step) ==
    IF step = "resolve" THEN "" ELSE "error running generation step"

\* Execute: the text each step's error is wrapped in ("" where the error is returned as is)
ExecuteContext(step) ==
    CASE step = "resolve" -> ""
      [] step = "init" -> "error initializing project"
      [] step = "types" -> "error generating types"
      [] step = "services" -> "error generating services"
      [] step = "mongo" -> "error generating repositories"
      [] step = "http" -> "error generating HTTP handlers"
      [] step = "regen" -> "error regenerating routes"
      [] step = "env" -> "error generating .env file"

\* what a step of Execute writes when nothing fails
ExecuteWrites(step, d, c, f, names) ==
    CASE step = "init" ->
            LET files == GenerateMainFiles(d, c)
            IN  CmdWrites(files, MainFilesToWrite(c, files, f))
      [] OTHER -> NoFiles      \* generateTypes ... generateEnvFile return nil

(***************************************************************************)
(* generator.HTTPGenerator.GenerateHandlers, as the drivers see it: the    *)
(* result map (key -> code) or an error.  `bad` is the set of operations   *)
(* whose resolution or template rendering fails.                           *)
(***************************************************************************)
OperationKeys(o) ==
    LET domain == Lower(o.tag)
    IN  {"domain/" \o domain \o "/" \o Lower(o.id) \o "_handler.go",
         "domain/" \o domain \o "/" \o Lower(o.id) \o "_handler_test.go"}

HandlerResultFor(ops) ==
    LET opFiles == UNION {OperationKeys(o) : o \in ops}
        domains == {Lower(o.tag) : o \in ops}
        mocks == {"domain/" \o dm \o "/mocks/mock_service.go" : dm \in domains}
        routers == {"domain/" \o dm \o "/handler.go" : dm \in domains}
        utils == {"httputil/http_utils.go", "httputil/handler_wrapper.go"}
    IN  [k \in utils \cup opFiles \cup mocks \cup routers |->
            CASE k = "httputil/http_utils.go" -> Rendered("http_utils.go.tmpl", [ImportPath |-> "app"])
              [] k = "httputil/handler_wrapper.go" -> Rendered("handler_wrapper.go.tmpl", [nil |-> TRUE])
              [] k \in mocks ->
                    Rendered("mocks.go.tmpl", [Domain |-> CHOOSE dm \in domains : k = "domain/" \o dm \o "/mocks/mock_service.go"])
              [] k \in routers ->
                    LET dm == CHOOSE x \in domains : k = "domain/" \o x \o "/handler.go"
                    IN  Rendered("schema_handler.go.tmpl",
                                 [Domain |-> dm, Operations |-> {o.id : o \in {x \in ops : Lower(x.tag) = dm}}])
              [] OTHER ->
                    LET o == CHOOSE x \in ops : k \in OperationKeys(x)
                    IN  Rendered(IF HasSuffix(k, "_test.go") THEN "operation_handler_test.go.tmpl"
                                                            ELSE "operation_handler.go.tmpl",
                                 [OperationID |-> o.id, Domain |-> Lower(o.tag)])]

\* the loop returns nil and the error of the first failing operation it meets
HandlerResults == [d \in Documents |-> HandlerResultFor(GetOperations(d))]

GenerateHandlers(d, bad) ==
    IF bad \cap GetOperations(d) # {}
    THEN [ok |-> FALSE, files |-> NoFiles]
    ELSE [ok |-> TRUE, files |-> HandlerResults[d]]

(***************************************************************************)
(* func main                                                               *)
(***************************************************************************)
\* main, init block: shouldWrite for one file
MainShouldWrite(overwrite, filename, exists) ==
    IF HasSuffix(filename, "routes.go")
    THEN TRUE
    ELSE IF ~exists THEN TRUE ELSE overwrite

\* the guard `os.IsNotExist(err) || *overwrite` before each WriteFile
WriteIfMissing(c, f, files) ==
    Only(files, {p \in DOMAIN files : ~Exists(f, p) \/ c.Overwrite})

\* main, handler block: where a key of the handler map is written
HandlerFilePath(key) ==
    IF HasPrefix(key, "httputil/")
    THEN Join(HttpUtilDir, SubSeq(key, Len("httputil/") + 1, Len(key)))
    ELSE IF HasPrefix(key, "domain/")
         THEN Join(HttpAdaptersDir, SubSeq(key, Len("domain/") + 1, Len(key)))
         ELSE Join(HttpAdaptersDir, key)

HandlerWritesFor(files) ==
    [p \in {HandlerFilePath(k) : k \in DOMAIN files} |->
        files[CHOOSE k \in DOMAIN files : HandlerFilePath(k) = p]]
HandlerWriteTable == [d \in Documents |-> HandlerWritesFor(HandlerResults[d])]
\* the handler block when GenerateHandlers returned no error
HandlerWrites(d) == HandlerWriteTable[d]

\* generator.ServiceGenerator: GenerateService and GenerateServiceTests of one schema
ServiceFiles ==
    [n \in PoolNames |->
        [p \in ServicePaths(n) |->
            Rendered(IF HasSuffix(p, "_test.go") THEN "service_test.go.tmpl" ELSE "service.go.tmpl",
                     [SchemaName |-> n])]]

\* generator.MongoGenerator: GenerateRepository and GenerateRepositoryTests of one schema
RepositoryFiles ==
    [n \in PoolNames |->
        [p \in RepositoryPaths(n) |->
            Rendered(IF HasSuffix(p, "_test.go") THEN "repository_test.go.tmpl" ELSE "repository.go.tmpl",
                     [SchemaName |-> n])]]

ServiceWrites(names) ==
    [p \in UNION {ServicePaths(n) : n \in names} |->
        ServiceFiles[CHOOSE n \in names : p \in ServicePaths(n)][p]]

RepositoryWrites(names) ==
    [p \in UNION {RepositoryPaths(n) : n \in names} |->
        RepositoryFiles[CHOOSE n \in names : p \in RepositoryPaths(n)][p]]

\* main, "Regenerate routes.go" block.  The call passes three flags; the callee with
\* that signature is not among the sources, so HasService follows the documented rule.
MainRegenerateFiles(d, c) ==
    GenerateWithFeatures(d, c.GenMongo, c.GenMongo, c.GenServices \/ c.GenHTTP, c.GenHTTP)

MainGate(step, c) ==
    CASE step = "init" -> c.InitProject
      [] step = "types" -> c.GenTypes
      [] step = "services" -> c.GenServices \/ c.GenHTTP
      [] step = "mongo" -> c.GenMongo
      [] step = "http" -> c.GenHTTP
      [] step = "regen" -> c.GenServices \/ c.GenMongo \/ c.GenHTTP \/ c.InitProject
      [] step = "env" -> c.InitProject
      [] OTHER -> TRUE

MainOrder == <<"resolve", "init", "types", "errors", "services", "mongo", "http", "regen", "env">>

\* what a block of main writes when nothing fails
MainWrites(step, d, c, f, names) ==
    CASE step = "init" ->
            LET files == GenerateMain(d)
            IN  CmdWrites(files, {n \in DOMAIN files :
                                    MainShouldWrite(c.Overwrite, n, Exists(f, CmdPath[n]))})
      [] step = "types" ->
            WriteIfMissing(c, f, [p \in {TypesPath} |->
                Rendered("templates/domain/types.go.tmpl", [Types |-> GetSchemas(d)])])
      [] step = "errors" ->
            WriteIfMissing(c, f, [p \in {ErrorsPath} |->
                Rendered("templates/domain/errors.go.tmpl", [nil |-> TRUE])])
      [] step = "services" -> WriteIfMissing(c, f, ServiceWrites(names))
      [] step = "mongo" -> WriteIfMissing(c, f, RepositoryWrites(names))
      [] step = "http" -> WriteIfMissing(c, f, HandlerWrites(d))
      [] step = "regen" ->
            CmdWrites(MainRegenerateFiles(d, c), {"routes.go"})
      [] step = "env" ->
            WriteIfMissing(c, f, [p \in {EnvFile} |->
                Rendered("templates/env.tmpl", [DBName |-> "app", DefaultPort |-> "8080"])])
      [] OTHER -> NoFiles

\* what main prints before os.Exit(1)
MainMessage(step) ==
    CASE step = "resolve" -> "Error: Schema not found in spec"
      [] step = "init" -> "Error generating main files"
      [] step = "http" -> "Error generating HTTP handlers"
      [] OTHER -> ""

(***************************************************************************)
(* Both drivers                                                            *)
(***************************************************************************)
Context(e, step) == IF e = "cli" THEN ExecuteContext(step) ELSE MainMessage(step)
Order(e) == IF e = "cli" THEN ExecuteOrder ELSE MainOrder
Gate(e, step, c) == IF e = "cli" THEN ExecuteGate(step, c) ELSE MainGate(step, c)
Writes(e, step, d, c, f, names) ==
    IF e = "cli" THEN ExecuteWrites(step, d, c, f, names) ELSE MainWrites(step, d, c, f, names)

IndexOf(seq, x) == CHOOSE i \in 1..Len(seq) : seq[i] = x

\* the first step after `step` that the configuration asks for
NextPc(e, c, step) ==
    LET later == {i \in (IndexOf(Order(e), step) + 1)..Len(Order(e)) : Gate(e, Order(e)[i], c)}
    IN  IF later = {} THEN "done"
        ELSE Order(e)[CHOOSE i \in later : \A j \in later : i <= j]

\* getSchemaNames / the schema filter of main: the names returned (as a set), or failure
ResolveFails(d, c) == c.SchemaName # "" /\ ~GetSchemaByName(d, c.SchemaName)
ResolvedNames(d, c) == IF c.SchemaName # "" THEN {c.SchemaName} ELSE GetSchemas(d)

\* the directory after a whole run in which nothing fails
RECURSIVE RunFrom(_, _, _, _, _, _)
RunFrom(e, d, c, f, names, i) ==
    IF i > Len(Order(e)) THEN f
    ELSE LET step == Order(e)[i]
             g == IF Gate(e, step, c) THEN Apply(f, Writes(e, step, d, c, f, names)) ELSE f
         IN  RunFrom(e, d, c, g, names, i + 1)

FreshRun(e, d, c) ==
    IF ResolveFails(d, c) THEN EmptyDir
    ELSE RunFrom(e, d, c, EmptyDir, ResolvedNames(d, c), 2)

(***************************************************************************)
(* The pipeline as a state machine                                         *)
(***************************************************************************)
Configs ==
    [GenTypes : BOOLEAN, GenServices : BOOLEAN, GenMongo : BOOLEAN, GenHTTP : BOOLEAN,
     InitProject : BOOLEAN, Overwrite : BOOLEAN, SchemaName : {"", MissingName} \cup PoolNames]

NoConfig ==
    [GenTypes |-> FALSE, GenServices |-> FALSE, GenMongo |-> FALSE, GenHTTP |-> FALSE,
     InitProject |-> FALSE, Overwrite |-> FALSE, SchemaName |-> ""]

NoErr == [step |-> "", context |-> "", cause |-> "", bad |-> {}]
NoPrev == [ran |-> FALSE, Overwrite |-> FALSE, ok |-> FALSE]

\* the orders in which ranging over a Go map can yield the names
Orderings(S) ==
    {q \in [1..Cardinality(S) -> S] : \A i, j \in 1..Cardinality(S) : q[i] = q[j] => i = j}

Range(q) == {q[i] : i \in 1..Len(q)}

\* the type mapper and the operation resolver before any call
MapperIdle ==
    /\ mapGraph = <<>> /\ mapNested = FALSE /\ mapStack = <<>>
    /\ mapResult = "" /\ mapState = "idle"

NoOperation == [opID |-> "", method |-> "", responses |-> <<>>]
NoData == [state |-> "none", Method |-> "", SuccessStatus |-> 0, HasResponseBody |-> FALSE]
ResolverIdle == opIn = NoOperation /\ opOut = NoData

\* the field tagger, the domain type builder, the request synthesis and the CRUD
\* classification before any call
Nothing == [none |-> TRUE]
TaggerIdle == tagIn = Nothing /\ tagOut = Nothing
TypeBuilderIdle == tyIn = Nothing /\ tyOut = <<>>
RequestIdle == reqIn = Nothing /\ reqOut = Nothing
CrudIdle == crudIn = Nothing /\ crudOut = Nothing
WiringIdle == wireIn = Nothing /\ wireOut = <<>>
BodiesIdle == bodyIn = Nothing /\ bodyOut = Nothing

\* no run of the pipeline under way, over an empty directory
PipelineIdle ==
    /\ prev = NoPrev
    /\ cfg = NoConfig
    /\ pc = "idle"
    /\ fs = EmptyDir
    /\ fs0 = EmptyDir
    /\ schemaNames = <<>>
    /\ trace = <<>>
    /\ err = NoErr
    /\ wrote = {}

Init ==
    /\ doc \in Documents
    /\ entry \in {"cli", "main"}
    /\ PipelineIdle
    /\ MapperIdle
    /\ ResolverIdle
    /\ TaggerIdle /\ TypeBuilderIdle /\ RequestIdle /\ CrudIdle
    /\ WiringIdle /\ BodiesIdle

\* cli.NewGenerationPipeline + Execute is called / main parses its flags
StartRun ==
    /\ pc = "idle"
    /\ \E c \in Configs : cfg' = c
    /\ pc' = "resolve"
    /\ UNCHANGED <<doc, entry, prev, fs, fs0, schemaNames, trace, err, wrote>>
    /\ UNCHANGED <<mapVars, opVars, genVars>>

\* getSchemaNames / the schema filter block of main
ResolveSchemas ==
    /\ pc = "resolve"
    /\ trace' = Append(trace, "resolve")
    /\ IF ResolveFails(doc, cfg)
       THEN /\ err' = [step |-> "resolve", context |-> Context(entry, "resolve"),
                       cause |-> "schema " \o cfg.SchemaName \o " not found in spec", bad |-> {}]
            /\ pc' = "failed"
            /\ UNCHANGED schemaNames
       ELSE /\ \E names \in Orderings(ResolvedNames(doc, cfg)) : schemaNames' = names
            /\ pc' = NextPc(entry, cfg, "resolve")
            /\ UNCHANGED err
    /\ UNCHANGED <<doc, entry, prev, cfg, fs, fs0, wrote>>
    /\ UNCHANGED <<mapVars, opVars, genVars>>

\* a step that ends without error: the files it writes reach the directory
StepOk(step) ==
    LET W == Writes(entry, step, doc, cfg, fs, Range(schemaNames))
    IN  /\ pc = step
        /\ trace' = Append(trace, step)
        /\ fs' = Apply(fs, W)
        /\ wrote' = wrote \cup DOMAIN W
        /\ pc' = NextPc(entry, cfg, step)
        /\ UNCHANGED <<doc, entry, prev, cfg, fs0, schemaNames, err>>
        /\ UNCHANGED <<mapVars, opVars, genVars>>

\* a step that ends with an error before it wrote a file: Execute returns the
\* wrapped error, main prints it and exits with status 1
StepFails(step, cause, bad) ==
    /\ pc = step
    /\ trace' = Append(trace, step)
    /\ err' = [step |-> step, context |-> Context(entry, step), cause |-> cause, bad |-> bad]
    /\ pc' = "failed"
    /\ UNCHANGED <<doc, entry, prev, cfg, fs, fs0, schemaNames, wrote>>
    /\ UNCHANGED <<mapVars, opVars, genVars>>

InitializeProject ==
    \/ StepOk("init")
    \/ StepFails("init", "failed to generate main files", {})

GenerateTypes == StepOk("types")

GenerateDomainErrors == entry = "main" /\ StepOk("errors")

GenerateServices == StepOk("services")

GenerateMongoRepositories == StepOk("mongo")

GenerateHTTPHandlers ==
    \/ StepOk("http")
    \/ /\ entry = "main"
       /\ \E bad \in SUBSET GetOperations(doc) :
            /\ ~GenerateHandlers(doc, bad).ok
            /\ StepFails("http", "failed to prepare data for operation", bad)

RegenerateRoutes == StepOk("regen")

GenerateEnvFile == StepOk("env")

\* the process ends; the next invocation finds the directory as this one left it
EndRun ==
    /\ pc \in {"done", "failed"}
    /\ ~prev.ran
    /\ prev' = [ran |-> TRUE, Overwrite |-> cfg.Overwrite, ok |-> pc = "done"]
    /\ pc' = "idle"
    /\ cfg' = NoConfig
    /\ fs0' = fs
    /\ schemaNames' = <<>>
    /\ trace' = <<>>
    /\ err' = NoErr
    /\ wrote' = {}
    /\ UNCHANGED <<doc, entry, fs>>
    /\ UNCHANGED <<mapVars, opVars, genVars>>

Next ==
    \/ StartRun
    \/ ResolveSchemas
    \/ InitializeProject
    \/ GenerateTypes
    \/ GenerateDomainErrors
    \/ GenerateServices
    \/ GenerateMongoRepositories
    \/ GenerateHTTPHandlers
    \/ RegenerateRoutes
    \/ GenerateEnvFile
    \/ EndRun

Spec == Init /\ [][Next]_vars

(***************************************************************************)
(* Properties of the pipeline (specification Spec)                         *)
(***************************************************************************)
DerivedPaths == {CmdPath["routes.go"], CmdPath["database.go"]}
Ran(step) == step \in Range(trace)
LastStep == IF trace = <<>> THEN "" ELSE trace[Len(trace)]
Fresh == FreshRun(entry, doc, cfg)

\* C1: with overwrite=false a run never writes or changes a file that existed when the
\* run started, unless the file is a derived wiring file (routes.go, database.go); in
\* particular main.go, types.go, errors.go, service, repository and handler files and
\* .env keep the content an earlier run gave them.
C1_StableFilesKept ==
    ~cfg.Overwrite =>
        \A p \in AllPaths \ DerivedPaths :
            Exists(fs0, p) => fs[p] = fs0[p] /\ p \notin wrote

\* a second run with init and types requested has ended over a directory that held
\* main.go and types.go, and main.go differs from what this run's flags would render
C1_Witness ==
    /\ prev.ok /\ pc = "done" /\ ~cfg.Overwrite
    /\ cfg.InitProject /\ cfg.GenTypes /\ cfg.GenHTTP
    /\ Exists(fs0, CmdPath["main.go"]) /\ Exists(fs0, TypesPath) /\ Exists(fs0, EnvFile)
    /\ fs[CmdPath["main.go"]] = fs0[CmdPath["main.go"]]
    /\ fs[CmdPath["routes.go"]] # fs0[CmdPath["routes.go"]]

C3_WriteDecision ==
    (LastStep = "init" /\ pc # "failed") =>
        \A n \in {"main.go", "routes.go", "database.go"} :
            CmdPath[n] \in wrote <=>
                \/ HasSuffix(n, "routes.go") \/ HasSuffix(n, "database.go")
                \/ cfg.Overwrite
                \/ ~Exists(fs0, CmdPath[n])

\* C4: in a run of Execute that ends without error each step ran at most once, in the
\* order resolve, init, types, services, persistence, http, regenerate, env, and exactly
\* the steps asked for ran: init iff InitProject, types iff GenTypes, services iff
\* GenServices or GenHTTP, persistence iff GenMongo, http iff GenHTTP, regenerate iff
\* GenServices, GenMongo, GenHTTP or InitProject, env iff InitProject; regeneration
\* comes after handler generation.
C4_Position(step) ==
    CASE step = "resolve" -> 1 [] step = "init" -> 2 [] step = "types" -> 3
      [] step = "services" -> 4 [] step = "mongo" -> 5 [] step = "http" -> 6
      [] step = "regen" -> 7 [] step = "env" -> 8 [] OTHER -> 0

C4_ExecuteOrder ==
    entry = "cli" =>
        /\ \A i \in 1..Len(trace) : C4_Position(trace[i]) > 0
        /\ \A i, j \in 1..Len(trace) : i < j => C4_Position(trace[i]) < C4_Position(trace[j])
        /\ pc = "done" =>
            /\ Ran("resolve")
            /\ Ran("init") <=> cfg.InitProject
            /\ Ran("types") <=> cfg.GenTypes
            /\ Ran("services") <=> (cfg.GenServices \/ cfg.GenHTTP)
            /\ Ran("mongo") <=> cfg.GenMongo
            /\ Ran("http") <=> cfg.GenHTTP
            /\ Ran("regen") <=> (cfg.GenServices \/ cfg.GenMongo \/ cfg.GenHTTP \/ cfg.InitProject)
            /\ Ran("env") <=> cfg.InitProject

\* Execute has ended without error where http was asked for and services was not
C4_Witness ==
    /\ entry = "cli" /\ pc = "done"
    /\ cfg.GenHTTP /\ ~cfg.GenServices /\ cfg.InitProject /\ ~cfg.GenMongo
    /\ trace = <<"resolve", "init", "services", "http", "regen", "env">>

C6_Declared(name) == name \in DOMAIN doc.schemas /\ doc.schemas[name] = "ok"

C6_SchemaFilter ==
    Ran("resolve") =>
        /\ (cfg.SchemaName # "" /\ C6_Declared(cfg.SchemaName)) =>
              /\ err.step # "resolve"
              /\ schemaNames = <<cfg.SchemaName>>
        /\ (cfg.SchemaName # "" /\ ~C6_Declared(cfg.SchemaName)) =>
              /\ pc = "failed" /\ err.step = "resolve"
              /\ HasSuffix(err.cause, "not found in spec")
              /\ trace = <<"resolve">>
              /\ wrote = {} /\ fs = fs0
        /\ cfg.SchemaName = "" =>
              /\ err.step # "resolve"
              /\ Range(schemaNames) = {n \in DOMAIN doc.schemas : C6_Declared(n)}
              /\ \A i, j \in 1..Len(schemaNames) : schemaNames[i] = schemaNames[j] => i = j

\* the run was asked for a schema whose reference holds no value, and has failed
C6_Witness ==
    /\ cfg.SchemaName \in DOMAIN doc.schemas
    /\ doc.schemas[cfg.SchemaName] = "nilValue"
    /\ cfg.InitProject /\ cfg.GenTypes
    /\ pc = "failed" /\ err.step = "resolve"

\* C7: when resolving or rendering one operation fails during handler generation, only
\* that operation's files are skipped: the handler and test file of every other
\* operation are produced and the run goes on.
C7_PartialSuccess ==
    (entry = "main" /\ Ran("http") /\ err.bad # {}) =>
        /\ pc # "failed"
        /\ \A o \in GetOperations(doc) \ err.bad :
              \A k \in OperationKeys(o) : Exists(fs, HandlerFilePath(k))

\* C18: when init runs, the entrypoint and wiring generators receive the flags of the
\* current configuration (useMongo = hasRepo = GenMongo, hasServices = GenServices or
\* GenHTTP, hasHandler = GenHTTP), so every file init writes under cmd/ is rendered
\* with them; with the empty feature set all four are false.
C18_InitFlags ==
    (LastStep = "init" /\ pc # "failed") =>
        \A n \in DOMAIN CmdPath :
            CmdPath[n] \in wrote =>
                fs[CmdPath[n]] = GenerateWithFeatures(doc, cfg.GenMongo, cfg.GenMongo,
                                                      cfg.GenServices \/ cfg.GenHTTP,
                                                      cfg.GenHTTP)[n]

(***************************************************************************)
(* The schema type mapper: generator.MapSchemaToGoType and                 *)
(* TypeGenerator.mapToGoType / generateStructDefinition.                   *)
(*                                                                         *)
(* A schema graph is a sequence of schemas; a link (Items,                 *)
(* AdditionalProperties.Schema, or the property "next") holds the index of *)
(* the schema its Value points at, 0 for nil.  After the loader resolved   *)
(* the $refs, a schema that refers to itself or to an enclosing schema is  *)
(* a link back to an earlier index.  The recursion of the Go functions is  *)
(* run on an explicit call stack; a call that is already on the stack with *)
(* the same arguments never returns, the Go runtime ends it with a stack   *)
(* overflow.  Field tags and comments of a struct are not represented.     *)
(***************************************************************************)
SchemaTypes == {"string", "number", "integer", "boolean", "array", "object", "null", ""}
SchemaFormats == {"", "date-time", "binary", "uuid", "float", "double", "int32", "int64"}

Schema(t, f, items, addl, prop) ==
    [type |-> t, format |-> f, items |-> items, addl |-> addl, prop |-> prop]

LinkTo(kind, target) ==
    CASE kind = "items" -> Schema("array", "", target, 0, 0)
      [] kind = "addl" -> Schema("object", "", 0, target, 0)
      [] kind = "prop" -> Schema("object", "", 0, 0, target)

LinkKinds == {"items", "addl", "prop"}

\* chains of k-1 schemas, the i-th linking to the (i+1)-th
RECURSIVE ChainPrefixes(_)
ChainPrefixes(k) ==
    IF k = 1 THEN {<<>>}
    ELSE {Append(q, LinkTo(kind, k)) : q \in ChainPrefixes(k - 1), kind \in LinkKinds}

\* the last schema of a chain of k: no link at all, or a link back into the chain
LastSchemas(k) ==
    {Schema(t, f, 0, 0, 0) : t \in SchemaTypes, f \in SchemaFormats}
    \cup {LinkTo(kind, j) : kind \in LinkKinds, j \in 1..k}

SchemaGraphs ==
    UNION {{Append(q, last) : q \in ChainPrefixes(k), last \in LastSchemas(k)} : k \in 1..MaxDepth}

MapSchemaToGoTypeFlatArray(schema, sub) ==
    CASE schema.type = "string" ->
            (CASE schema.format = "date-time" -> "time.Time"
               [] schema.format = "binary" -> "[]byte"
               [] OTHER -> "string")
      [] schema.type = "number" -> (IF schema.format = "float" THEN "float32" ELSE "float64")
      [] schema.type = "integer" ->
            (CASE schema.format = "int32" -> "int32"
               [] schema.format = "int64" -> "int64"
               [] OTHER -> "int")
      [] schema.type = "boolean" -> "bool"
      [] schema.type = "array" -> "[]interface{}"
      [] schema.type = "object" ->
            IF schema.addl # 0 THEN "map[string]" \o sub ELSE "map[string]interface{}"
      [] OTHER -> "interface{}"

\* MapSchemaToGoType on one schema; sub is what the recursive call returned
MapSchemaToGoType(schema, sub) ==
    CASE schema.type = "string" ->
            (CASE schema.format = "date-time" -> "time.Time"
               [] schema.format = "binary" -> "[]byte"
               [] schema.format = "uuid" -> "string"
               [] OTHER -> "string")
      [] schema.type = "number" ->
            (CASE schema.format = "float" -> "float32"
               [] OTHER -> "float64")
      [] schema.type = "integer" ->
            (CASE schema.format = "int32" -> "int32"
               [] schema.format = "int64" -> "int64"
               [] OTHER -> "int")
      [] schema.type = "boolean" -> "bool"
      [] schema.type = "array" ->
            IF schema.items # 0 THEN "[]" \o sub ELSE "[]interface{}"
      [] schema.type = "object" ->
            IF schema.addl # 0 THEN "map[string]" \o sub ELSE "map[string]interface{}"
      [] OTHER -> "interface{}"

\* generateStructDefinition(name "", isNested true); sub is the type of the field
generateStructDefinition(schema, sub) ==
    "struct {\n" \o (IF schema.prop # 0 THEN "\tNext " \o sub \o "\n" ELSE "") \o "}"

\* a call on the stack: the schema, whether it is mapToGoType with allowNested, and
\* the result of its recursive call once that has returned
Frame(node, nested) == [node |-> node, nested |-> nested, got |-> FALSE, sub |-> ""]

\* mapToGoType: `schema.Type == "object" && allowNested`
UsesStruct(f) == f.nested /\ mapGraph[f.node].type = "object"

\* the schema the call recurses into, 0 when it does not recurse
CalleeOf(f) ==
    LET schema == mapGraph[f.node]
    IN  IF UsesStruct(f) THEN schema.prop
        ELSE IF schema.type = "array" THEN schema.items
        ELSE IF schema.type = "object" THEN schema.addl
        ELSE 0

mapToGoType(f) ==
    IF UsesStruct(f)
    THEN generateStructDefinition(mapGraph[f.node], f.sub)
    ELSE MapSchemaToGoType(mapGraph[f.node], f.sub)

Top == mapStack[Len(mapStack)]

\* a caller invokes mapToGoType(schema, allowNested) on the first schema of the graph
MapperCall ==
    /\ mapState = "idle"
    /\ mapGraph # <<>>
    /\ \E allowNested \in BOOLEAN :
        /\ mapNested' = allowNested
        /\ mapStack' = <<Frame(1, allowNested)>>
    /\ mapState' = "running"
    /\ UNCHANGED <<mapGraph, mapResult>>
    /\ UNCHANGED <<pipeVars, opVars, genVars>>

\* the call on top recurses
MapperDescend ==
    /\ mapState = "running"
    /\ CalleeOf(Top) # 0 /\ ~Top.got
    /\ LET callee == Frame(CalleeOf(Top), UsesStruct(Top))
       IN  IF \E i \in 1..Len(mapStack) :
                mapStack[i].node = callee.node /\ mapStack[i].nested = callee.nested
           THEN mapState' = "overflow" /\ UNCHANGED mapStack
           ELSE mapStack' = Append(mapStack, callee) /\ UNCHANGED mapState
    /\ UNCHANGED <<mapGraph, mapNested, mapResult>>
    /\ UNCHANGED <<pipeVars, opVars, genVars>>

\* the call on top returns its type expression to its caller
MapperReturn ==
    /\ mapState = "running"
    /\ CalleeOf(Top) = 0 \/ Top.got
    /\ IF Len(mapStack) = 1
       THEN /\ mapResult' = mapToGoType(Top)
            /\ mapState' = "returned"
            /\ mapStack' = <<>>
       ELSE /\ mapStack' = [SubSeq(mapStack, 1, Len(mapStack) - 1) EXCEPT
                              ![Len(mapStack) - 1].got = TRUE,
                              ![Len(mapStack) - 1].sub = mapToGoType(Top)]
            /\ UNCHANGED <<mapResult, mapState>>
    /\ UNCHANGED <<mapGraph, mapNested>>
    /\ UNCHANGED <<pipeVars, opVars, genVars>>

MapInit ==
    /\ doc = MkDoc(MaxSchemas, "ok")
    /\ entry = "cli"
    /\ PipelineIdle
    /\ ResolverIdle
    /\ TaggerIdle /\ TypeBuilderIdle /\ RequestIdle /\ CrudIdle
    /\ WiringIdle /\ BodiesIdle
    /\ mapGraph \in SchemaGraphs
    /\ mapNested = FALSE /\ mapStack = <<>> /\ mapResult = "" /\ mapState = "idle"

MapNext == MapperCall \/ MapperDescend \/ MapperReturn

MapSpec == MapInit /\ [][MapNext]_vars

(***************************************************************************)
(* The operation resolver: HTTPGenerator.prepareOperationData, the part    *)
(* that finds the method and settles the success status and the response   *)
(* body flag.  Parameters, request fields and the response type of the     *)
(* returned OperationData are not represented.                             *)
(***************************************************************************)
HTTPMethods == {"GET", "POST", "PUT", "DELETE", "PATCH", "OPTIONS", "HEAD"}
StatusCodes == {"200", "201", "204", "2XX", "404", "default"}

\* operations: the method under which the paths hold the operation ("" when no path
\* item holds it) and its declared responses, status code -> whether it has content
Operations ==
    {[opID |-> "op", method |-> m, responses |-> r] :
        m \in HTTPMethods \cup {""},
        r \in UNION {[codes -> BOOLEAN] :
                        codes \in {c \in SUBSET StatusCodes : Cardinality(c) <= MaxResponses}}}

Digits == "0123456789"

\* fmt.Sscanf(s, "%d", &n) on an unsigned text: the leading digits, 0 when there are none
RECURSIVE ScanDigits(_, _)
ScanDigits(s, acc) ==
    IF Len(s) = 0 \/ IndexIn(Digits, CharAt(s, 1)) = 0
    THEN acc
    ELSE ScanDigits(SubSeq(s, 2, Len(s)), acc * 10 + IndexIn(Digits, CharAt(s, 1)) - 1)

Sscanf(s) == ScanDigits(s, 0)

\* `statusCode[0] == '2'`
IsSuccessCode(code) == CharAt(code, 1) = "2"

DefaultSuccessStatus200(httpMethod) == 200

\* the "Default success status if not found" block
DefaultSuccessStatus(httpMethod) ==
    IF httpMethod = "POST" THEN 201
    ELSE IF httpMethod = "DELETE" THEN 204
    ELSE 200

\* the OperationData returned when the range over the responses meets `first` as its
\* first success code ("" when it meets none)
ResolveStatus(op, first) ==
    LET scanned == IF first = "" THEN 0
                   ELSE IF Sscanf(first) = 0 THEN 200 ELSE Sscanf(first)
    IN  [state |-> "returned",
         Method |-> op.method,
         SuccessStatus |-> IF scanned = 0 THEN DefaultSuccessStatus(op.method) ELSE scanned,
         HasResponseBody |-> first # "" /\ op.responses[first]]

PrepareOperationData ==
    /\ opOut.state = "none"
    /\ opIn # NoOperation
    /\ IF opIn.method = ""
       THEN opOut' = [NoData EXCEPT !.state = "error"]
       ELSE LET success == {c \in DOMAIN opIn.responses : IsSuccessCode(c)}
            IN  \E first \in (IF success = {} THEN {""} ELSE success) :
                    opOut' = ResolveStatus(opIn, first)
    /\ UNCHANGED opIn
    /\ UNCHANGED <<pipeVars, mapVars, genVars>>

OpInit ==
    /\ doc = MkDoc(MaxSchemas, "ok")
    /\ entry = "main"
    /\ PipelineIdle
    /\ MapperIdle
    /\ TaggerIdle /\ TypeBuilderIdle /\ RequestIdle /\ CrudIdle
    /\ WiringIdle /\ BodiesIdle
    /\ opIn \in Operations
    /\ opOut = NoData

OpNext == PrepareOperationData

OpSpec == OpInit /\ [][OpNext]_vars

(***************************************************************************)
(* Properties of the operation resolver (OpSpec) and the type mapper       *)
(* (MapSpec)                                                               *)
(***************************************************************************)
\* C8: for an operation that declares no response whose status code begins with '2',
\* the resolved SuccessStatus is 201 for POST, 204 for DELETE and 200 for every other
\* method; a resolved SuccessStatus is never 0.
C8_StatusDefault ==
    opOut.state = "returned" =>
        /\ opOut.SuccessStatus # 0
        /\ (\A c \in DOMAIN opIn.responses : SubSeq(c, 1, 1) # "2") =>
              opOut.SuccessStatus = (CASE opIn.method = "POST" -> 201
                                       [] opIn.method = "DELETE" -> 204
                                       [] OTHER -> 200)

\* a DELETE operation that declares only 404 and default has been resolved to 204
C8_Witness ==
    /\ opIn.method = "DELETE"
    /\ DOMAIN opIn.responses = {"404", "default"}
    /\ opOut.state = "returned"
    /\ opOut.SuccessStatus = 204

\* C9: called with allowNested=false on scalars and arrays of them, the mapper follows
\* the rule table: string/date-time -> time.Time, string/binary -> []byte, string with
\* any other or no format -> string, number/float -> float32, number otherwise ->
\* float64, integer/int32 -> int32, integer/int64 -> int64, integer otherwise -> int,
\* boolean -> bool, array -> "[]" before the mapped item type, array without items ->
\* []interface{}.
RECURSIVE C9_InTable(_)
C9_InTable(i) ==
    \/ mapGraph[i].type \in {"string", "number", "integer", "boolean"}
    \/ /\ mapGraph[i].type = "array"
       /\ mapGraph[i].items = 0 \/ C9_InTable(mapGraph[i].items)

RECURSIVE C9_Expected(_)
C9_Expected(i) ==
    LET t == mapGraph[i].type
        f == mapGraph[i].format
    IN  CASE t = "string" /\ f = "date-time" -> "time.Time"
          [] t = "string" /\ f = "binary" -> "[]byte"
          [] t = "string" /\ f \notin {"date-time", "binary"} -> "string"
          [] t = "number" /\ f = "float" -> "float32"
          [] t = "number" /\ f # "float" -> "float64"
          [] t = "integer" /\ f = "int32" -> "int32"
          [] t = "integer" /\ f = "int64" -> "int64"
          [] t = "integer" /\ f \notin {"int32", "int64"} -> "int"
          [] t = "boolean" -> "bool"
          [] t = "array" /\ mapGraph[i].items = 0 -> "[]interface{}"
          [] t = "array" /\ mapGraph[i].items # 0 -> "[]" \o C9_Expected(mapGraph[i].items)

C9_RuleTable ==
    (mapState = "returned" /\ ~mapNested /\ C9_InTable(1)) => mapResult = C9_Expected(1)

\* an array of arrays of integers has been mapped to [][]int
C9_Witness ==
    /\ mapState = "returned" /\ ~mapNested
    /\ mapGraph = <<LinkTo("items", 2), LinkTo("items", 3), Schema("integer", "", 0, 0, 0)>>
    /\ mapResult = "[][]int"

\* C10: the mapper is total: on every schema graph, with any type string, any nesting of
\* arrays, objects and additionalProperties, and with properties that refer back to an
\* enclosing schema, the call returns a type expression (it never runs out of stack),
\* and a schema that matches no rule maps to interface{}.
C10_Total ==
    /\ mapState # "overflow"
    /\ mapState = "returned" => mapResult # ""
    /\ (mapState = "returned"
        /\ mapGraph[1].type \notin {"string", "number", "integer", "boolean", "array", "object"})
            => mapResult = "interface{}"

\* C20: an object schema that has an additionalProperties schema maps to map[string]
\* followed by the mapped value type in every calling context, with allowNested=true
\* as well as with allowNested=false.
C20_MapBeforeObject ==
    (mapState = "returned" /\ mapGraph[1].type = "object" /\ mapGraph[1].addl # 0) =>
        HasPrefix(mapResult, "map[string]")

(***************************************************************************)
(* More strings: what the generators use of package strings, sort and fmt  *)
(***************************************************************************)
\* the characters of the generated text in byte order
AsciiOrder ==
    " \"*,-./0123456789:=ABCDEFGHIJKLMNOPQRSTUVWXYZ[]^_abcdefghijklmnopqrstuvwxyz{}"

\* a < b on Go strings: byte-wise
RECURSIVE StrLess(_, _)
StrLess(a, b) ==
    IF Len(a) = 0 THEN Len(b) > 0
    ELSE IF Len(b) = 0 THEN FALSE
    ELSE LET x == IndexIn(AsciiOrder, CharAt(a, 1))
             y == IndexIn(AsciiOrder, CharAt(b, 1))
         IN  IF x # y THEN x < y
             ELSE StrLess(SubSeq(a, 2, Len(a)), SubSeq(b, 2, Len(b)))

RECURSIVE InsertSorted(_, _)
InsertSorted(q, x) ==
    IF Len(q) = 0 THEN <<x>>
    ELSE IF StrLess(x, q[1]) THEN <<x>> \o q
    ELSE <<q[1]>> \o InsertSorted(Tail(q), x)

\* sort.Strings
RECURSIVE SortStrings(_)
SortStrings(q) ==
    IF Len(q) = 0 THEN <<>>
    ELSE InsertSorted(SortStrings(SubSeq(q, 1, Len(q) - 1)), q[Len(q)])

\* strings.Join
RECURSIVE StringsJoin(_, _)
StringsJoin(elems, sep) ==
    IF Len(elems) = 0 THEN ""
    ELSE IF Len(elems) = 1 THEN elems[1]
    ELSE elems[1] \o sep \o StringsJoin(Tail(elems), sep)

\* strings.Index, 1-based; 0 when substr does not occur
RECURSIVE StringsIndexFrom(_, _, _)
StringsIndexFrom(s, substr, i) ==
    IF i + Len(substr) - 1 > Len(s) THEN 0
    ELSE IF SubSeq(s, i, i + Len(substr) - 1) = substr THEN i
    ELSE StringsIndexFrom(s, substr, i + 1)

StringsIndex(s, substr) == StringsIndexFrom(s, substr, 1)

\* strings.Contains
StringsContains(s, substr) == StringsIndex(s, substr) # 0

\* strings.Split on a one-character separator
RECURSIVE StringsSplit(_, _)
StringsSplit(s, sep) ==
    LET i == StringsIndex(s, sep)
    IN  IF i = 0 THEN <<s>>
        ELSE <<SubSeq(s, 1, i - 1)>> \o StringsSplit(SubSeq(s, i + 1, Len(s)), sep)

\* fmt.Sprintf("%d", n) for n >= 0
RECURSIVE Itoa(_)
Itoa(n) ==
    IF n < 10 THEN CharAt(Digits, n + 1)
    ELSE Itoa(n \div 10) \o CharAt(Digits, (n % 10) + 1)

ContainsFirstOnly(slice, item) == Len(slice) > 0 /\ slice[1] = item

\* generator.Contains
Contains(slice, item) == \E i \in 1..Len(slice) : slice[i] = item

(***************************************************************************)
(* Field tags: TypeGenerator.generateFieldTags.  A property schema is a    *)
(* record: type, format, the validation keywords (a nil pointer is <<>>, a *)
(* set one <<v>>), and for an array, a map or a nested object the schema   *)
(* its Items / AdditionalProperties / single property "next" points at     *)
(* (items, addl, prop are 1 when that link is set, sub is its target).     *)
(* Numeric minimum and maximum are whole numbers, which %v prints as %d    *)
(* does.                                                                   *)
(***************************************************************************)
PropertySchema(t, f, minLength, maxLength, pattern, enum, min, max) ==
    [type |-> t, format |-> f, items |-> 0, addl |-> 0, prop |-> 0, sub |-> Nothing,
     MinLength |-> minLength, MaxLength |-> maxLength, Pattern |-> pattern,
     Enum |-> enum, Min |-> min, Max |-> max]

\* valTags with the numeric rules emitted for every type
ValTagsAnyType(name, schema, requiredFields) ==
    (IF Contains(requiredFields, name) THEN <<"required">> ELSE <<>>)
    \o (IF schema.type = "string"
        THEN (IF schema.MinLength > 0 THEN <<"min=" \o Itoa(schema.MinLength)>> ELSE <<>>)
             \o (IF schema.MaxLength # <<>> THEN <<"max=" \o Itoa(schema.MaxLength[1])>> ELSE <<>>)
             \o (IF schema.Pattern # "" THEN <<"regexp=" \o schema.Pattern>> ELSE <<>>)
             \o (IF schema.format # "" THEN <<"format=" \o schema.format>> ELSE <<>>)
             \o (IF Len(schema.Enum) > 0
                 THEN <<"enum=" \o StringsJoin(schema.Enum, " ")>> ELSE <<>>)
        ELSE <<>>)
    \o (IF schema.Min # <<>> THEN <<"min=" \o Itoa(schema.Min[1])>> ELSE <<>>)
    \o (IF schema.Max # <<>> THEN <<"max=" \o Itoa(schema.Max[1])>> ELSE <<>>)

\* the valTags slice of generateFieldTags
ValTags(name, schema, requiredFields) ==
    (IF Contains(requiredFields, name) THEN <<"required">> ELSE <<>>)
    \o (IF schema.type = "string"
        THEN (IF schema.MinLength > 0 THEN <<"min=" \o Itoa(schema.MinLength)>> ELSE <<>>)
             \o (IF schema.MaxLength # <<>> THEN <<"max=" \o Itoa(schema.MaxLength[1])>> ELSE <<>>)
             \o (IF schema.Pattern # "" THEN <<"regexp=" \o schema.Pattern>> ELSE <<>>)
             \o (IF schema.format # "" THEN <<"format=" \o schema.format>> ELSE <<>>)
             \o (IF Len(schema.Enum) > 0
                 THEN <<"enum=" \o StringsJoin(schema.Enum, " ")>> ELSE <<>>)
        ELSE <<>>)
    \o (IF schema.type = "number" \/ schema.type = "integer"
        THEN (IF schema.Min # <<>> THEN <<"min=" \o Itoa(schema.Min[1])>> ELSE <<>>)
             \o (IF schema.Max # <<>> THEN <<"max=" \o Itoa(schema.Max[1])>> ELSE <<>>)
        ELSE <<>>)

\* the tags map of generateFieldTags
FieldTagMap(name, schema, requiredFields) ==
    LET valTags == ValTags(name, schema, requiredFields)
    IN  [k \in {"json", "bson"} \cup (IF Len(valTags) > 0 THEN {"validate"} ELSE {}) |->
            IF k = "validate" THEN StringsJoin(valTags, ",") ELSE name]

\* the tag string without the sort: the entries in the order the map range yields them
generateFieldTagsUnsorted(name, schema, requiredFields, order) ==
    LET tags == FieldTagMap(name, schema, requiredFields)
        tagStrs == [i \in 1..Len(order) |-> order[i] \o ":\"" \o tags[order[i]] \o "\""]
    IN  StringsJoin(tagStrs, " ")

\* generateFieldTags; order is the order in which the range over the tags map
\* yields its keys
generateFieldTags(name, schema, requiredFields, order) ==
    LET tags == FieldTagMap(name, schema, requiredFields)
        tagStrs == [i \in 1..Len(order) |-> order[i] \o ":\"" \o tags[order[i]] \o "\""]
    IN  StringsJoin(SortStrings(tagStrs), " ")

\* the orders in which ranging over the tags map can yield its keys
TagOrders(name, schema, requiredFields) ==
    Orderings(DOMAIN FieldTagMap(name, schema, requiredFields))

\* property schemas with every combination of validation keywords
TagSchemas ==
    {PropertySchema(t, f, minLength, maxLength, pattern, enum, min, max) :
        t \in {"string", "integer", "number", "boolean"},
        f \in {"", "uuid"},
        minLength \in {0, 3}, maxLength \in {<<>>, <<50>>},
        pattern \in {"", "^a"}, enum \in {<<>>, <<"sold", "pending">>},
        min \in {<<>>, <<1>>}, max \in {<<>>, <<9>>}}

TagInputs ==
    [name : {"name", "created_at"},
     schema : TagSchemas,
     required : {<<>>, <<"name">>, <<"id", "name">>, <<"created_at">>}]

GenerateFieldTags ==
    /\ tagIn # Nothing
    /\ tagOut = Nothing
    /\ \E order \in TagOrders(tagIn.name, tagIn.schema, tagIn.required) :
        tagOut' = [tags |-> generateFieldTags(tagIn.name, tagIn.schema, tagIn.required, order)]
    /\ UNCHANGED tagIn
    /\ UNCHANGED <<pipeVars, mapVars, opVars, tyVars, reqVars, crudVars, wireVars, bodyVars>>

TagInit ==
    /\ doc = MkDoc(MaxSchemas, "ok")
    /\ entry = "cli"
    /\ PipelineIdle
    /\ MapperIdle
    /\ ResolverIdle
    /\ TypeBuilderIdle /\ RequestIdle /\ CrudIdle
    /\ WiringIdle /\ BodiesIdle
    /\ tagIn \in TagInputs
    /\ tagOut = Nothing

TagNext == GenerateFieldTags

TagSpec == TagInit /\ [][TagNext]_vars

(***************************************************************************)
(* Properties of the field tags (TagSpec)                                  *)
(***************************************************************************)
\* the value of the validate key of a tag string, "" when there is none
ValidateValue(tags) ==
    LET i == StringsIndex(tags, "validate:\"")
    IN  IF i = 0 THEN ""
        ELSE LET rest == SubSeq(tags, i + 10, Len(tags))
             IN  SubSeq(rest, 1, StringsIndex(rest, "\"") - 1)

\* the validation rules a tag string carries
RulesOf(tags) ==
    IF ValidateValue(tags) = "" THEN <<>> ELSE StringsSplit(ValidateValue(tags), ",")

\* C13: the validation rules of a field contain the rule "required" if and only if the
\* property name is in the required list of the schema.
C13_RequiredIff ==
    tagOut # Nothing =>
        (("required" \in Range(RulesOf(tagOut.tags)))
            <=> (tagIn.name \in Range(tagIn.required)))

\* the second name of the required list has got the rule, a name that is not listed
\* has not
C13_Witness ==
    /\ tagOut # Nothing
    /\ tagIn.name = "name"
    /\ tagIn.required = <<"id", "name">>
    /\ RulesOf(tagOut.tags)[1] = "required"

\* the rules the documentation gives for a property, in its order
C19_Rules ==
    LET s == tagIn.schema
        isString == s.type = "string"
        isNumeric == s.type \in {"number", "integer"}
        text == [n \in {1, 3, 9, 50} |->
                    CASE n = 1 -> "1" [] n = 3 -> "3" [] n = 9 -> "9" [] n = 50 -> "50"]
        table == <<
            [on |-> tagIn.name \in Range(tagIn.required), rule |-> "required"],
            [on |-> isString /\ s.MinLength = 3, rule |-> "min=3"],
            [on |-> isNumeric /\ s.Min = <<1>>, rule |-> "min=1"],
            [on |-> isString /\ s.MaxLength = <<50>>, rule |-> "max=50"],
            [on |-> isNumeric /\ s.Max = <<9>>, rule |-> "max=9"],
            [on |-> isString /\ s.Pattern = "^a", rule |-> "regexp=^a"],
            [on |-> isString /\ s.format = "uuid", rule |-> "format=uuid"],
            [on |-> isString /\ s.Enum = <<"sold", "pending">>, rule |-> "enum=sold pending"]
        >>
        chosen == SelectSeq(table, LAMBDA e : e.on)
    IN  [i \in 1..Len(chosen) |-> chosen[i].rule]

\* C19: string rules (min, max, regexp, format, enum with the values joined by single
\* spaces) are emitted only for type string, numeric min/max only for number and
\* integer; the rules are joined by commas into one validate tag in the order
\* required, min, max, regexp, format, enum, and a field with no rule has no validate
\* tag.
C19_ValidationRules ==
    tagOut # Nothing =>
        /\ RulesOf(tagOut.tags) = C19_Rules
        /\ C19_Rules = <<>> => ~StringsContains(tagOut.tags, "validate")
        /\ C19_Rules # <<>> =>
              HasSuffix(tagOut.tags, " validate:\"" \o StringsJoin(C19_Rules, ",") \o "\"")

\* a required string with minLength 3 and maxLength 50 has got
\* validate:"required,min=3,max=50"
C19_Witness ==
    /\ tagOut # Nothing
    /\ tagIn.name = "name" /\ tagIn.required = <<"name">>
    /\ tagIn.schema = PropertySchema("string", "", 3, <<50>>, "", <<>>, <<>>, <<>>)
    /\ tagOut.tags = "bson:\"name\" json:\"name\" validate:\"required,min=3,max=50\""

(***************************************************************************)
(* The domain type builder: TypeGenerator.GenerateTypes, collectImports    *)
(* and buildTypeDefinition.  A schema is its type, its properties (name -> *)
(* reference to a property schema, 0 for a property whose Value is nil)    *)
(* and its required list.  The ranges over Go maps (the schemas, the properties of *)
(* a schema, the tags of a field) yield their keys in an order the runtime *)
(* chooses; a call draws one order of the schema names, one of the         *)
(* property names and one of the tag keys.  Descriptions (the field        *)
(* comments) and the tags of the fields of a nested struct are not         *)
(* represented.                                                            *)
(***************************************************************************)
\* most properties of one schema
MaxProps == 2
\* calls of GenerateTypes on the same document
MaxCalls == 2

UpperChar(c) ==
    LET i == IndexIn(LowerAlpha, c) IN IF i = 0 THEN c ELSE CharAt(UpperAlpha, i)

formatFieldName(name) ==
    IF ToLower(name) = "id" THEN "ID"
    ELSE LET parts == StringsSplit(name, "_")
             titled == [i \in 1..Len(parts) |->
                          IF parts[i] = "" THEN ""
                          ELSE UpperChar(CharAt(parts[i], 1))
                               \o SubSeq(parts[i], 2, Len(parts[i]))]
         IN  StringsJoin(titled, "")

\* a property schema without validation keywords
Leaf(t, f) == PropertySchema(t, f, 0, <<>>, "", <<>>, <<>>, <<>>)
ArrayOf(item) == [Leaf("array", "") EXCEPT !.items = 1, !.sub = item]
MapOf(value) == [Leaf("object", "") EXCEPT !.addl = 1, !.sub = value]
ObjectWith(property) == [Leaf("object", "") EXCEPT !.prop = 1, !.sub = property]

\* g.mapToGoType(prop.Value, true) on a property whose link, if any, leads to a leaf
PropertyGoType(schema) ==
    LET sub == IF schema.sub = Nothing THEN "" ELSE MapSchemaToGoType(schema.sub, "")
    IN  IF schema.type = "object"
        THEN generateStructDefinition(schema, sub)
        ELSE MapSchemaToGoType(schema, sub)

TypeNames == {"User", "Pet"}
PropNames == {"id", "name", "created_at"}
TagKeys == {"json", "bson", "validate"}
RequiredLists == {<<>>, <<"name">>}

\* the property schemas of the documents: plain and date-time strings, a string and
\* an integer with validation keywords, arrays, a nested object, a map
FieldSchemas ==
    <<Leaf("string", ""), Leaf("string", "date-time"),
      PropertySchema("string", "", 3, <<50>>, "", <<>>, <<>>, <<>>),
      PropertySchema("integer", "", 0, <<>>, "", <<>>, <<1>>, <<>>),
      ArrayOf(Leaf("string", "date-time")), ArrayOf(Leaf("string", "")),
      ObjectWith(Leaf("string", "date-time")), MapOf(Leaf("string", "date-time"))>>

\* what a property of a schema refers to: a property schema, or 0 when its Value is nil
SchemaRefs == 0..Len(FieldSchemas)
RefTo(schema) == CHOOSE i \in 1..Len(FieldSchemas) : FieldSchemas[i] = schema

ObjectSchema(t, properties, required) ==
    [type |-> t, Properties |-> properties, Required |-> required]

\* schemas with at most MaxProps properties; a schema that declares properties without
\* `type: object` has the type ""
RichSchemas ==
    UNION {{ObjectSchema(t, properties, required) :
                t \in {"object", ""},
                properties \in [names -> SchemaRefs],
                required \in RequiredLists} :
           names \in {k \in SUBSET PropNames : Cardinality(k) <= MaxProps}}

PlainSchemas ==
    {ObjectSchema("object", [p \in {"created_at"} |-> RefTo(Leaf("string", "date-time"))], <<>>),
     ObjectSchema("object", [p \in {"name"} |-> RefTo(Leaf("string", ""))], <<"name">>)}

\* schema maps: one schema, or one schema next to a plain one
SchemaMaps ==
    UNION {{[n \in {name} |-> schema] : schema \in RichSchemas}
           \cup {[n \in TypeNames |-> IF n = name THEN schema ELSE plain] :
                    schema \in RichSchemas, plain \in PlainSchemas} :
           name \in TypeNames}

\* the keys of a map in the order a range yields them, drawn from one order of all keys
RangeOrder(order, keys) == SelectSeq(order, LAMBDA k : k \in keys)

\* a function as an explicit table: every value is computed once, when the table is built
Tabulated(f) == f @@ <<>>

\* Orderings of the key sets the documents give rise to, computed once
OrderingsTable ==
    Tabulated([S \in (SUBSET PropNames) \cup (SUBSET TypeNames) \cup {TagKeys} |->
                    Orderings(S)])

\* the property names a schema map holds
PropertyNames(schemas) == UNION {DOMAIN schemas[n].Properties : n \in DOMAIN schemas}

\* the field buildTypeDefinition appends for a property
TypeField(propName, prop, required, korder) ==
    LET tagOrder == RangeOrder(korder, DOMAIN FieldTagMap(propName, prop, required))
    IN  [Name |-> formatFieldName(propName),
         Type |-> PropertyGoType(prop),
         Tags |-> generateFieldTags(propName, prop, required, tagOrder),
         Comment |-> "//"]

\* TypeField on the properties the documents hold, computed once
TypeFieldTable ==
    Tabulated([propName \in PropNames |-> Tabulated([ref \in 1..Len(FieldSchemas) |->
        Tabulated([required \in RequiredLists |->
            Tabulated([korder \in OrderingsTable[TagKeys] |->
                Tabulated(TypeField(propName, FieldSchemas[ref], required, korder))])])])])

SortStringsNone(q) == q

\* sort.Strings on the names collected from a map range
SortedNames(q) == SortStrings(q)

\* SortedNames on the name lists the documents give rise to, computed once
SortedNamesTable ==
    Tabulated([q \in UNION {OrderingsTable[S] :
                                S \in (SUBSET PropNames) \cup (SUBSET TypeNames)} |->
                    SortedNames(q)])

\* buildTypeDefinition
buildTypeDefinition(name, schema, porder, korder) ==
    LET propNames == SortedNamesTable[RangeOrder(porder, DOMAIN schema.Properties)]
        present == SelectSeq(propNames, LAMBDA p : schema.Properties[p] # 0)
    IN  [Name |-> name,
         Fields |->
            IF schema.type = "object"
            THEN [i \in 1..Len(present) |->
                    TypeFieldTable[present[i]][schema.Properties[present[i]]]
                                  [schema.Required][korder]]
            ELSE <<>>]

\* collectImports: the sorted import list
collectImports(schemas) ==
    IF \E n \in DOMAIN schemas : \E p \in DOMAIN schemas[n].Properties :
          LET ref == schemas[n].Properties[p]
          IN  ref # 0 /\ FieldSchemas[ref].type = "string"
                      /\ FieldSchemas[ref].format = "date-time"
    THEN <<"time">>
    ELSE <<>>

\* GenerateTypes: the TypeTemplateData handed to the template
TypeTemplateData(schemas, sorder, porder, korder) ==
    LET schemaNames_ == SortedNamesTable[sorder]
        imports == collectImports(schemas)
    IN  [HasTimeType |-> \E i \in 1..Len(imports) : imports[i] = "time",
         AdditionalImports |-> SelectSeq(imports, LAMBDA imp : imp # "time"),
         Types |-> [i \in 1..Len(schemaNames_) |->
                      buildTypeDefinition(schemaNames_[i], schemas[schemaNames_[i]],
                                          porder, korder)]]

TypeGeneratorGenerateTypes ==
    /\ tyIn # Nothing
    /\ Len(tyOut) < MaxCalls
    /\ \E sorder \in OrderingsTable[DOMAIN tyIn],
          porder \in OrderingsTable[PropertyNames(tyIn)],
          korder \in OrderingsTable[TagKeys] :
        tyOut' = Append(tyOut, TypeTemplateData(tyIn, sorder, porder, korder))
    /\ UNCHANGED tyIn
    /\ UNCHANGED <<pipeVars, mapVars, opVars, tagVars, reqVars, crudVars, wireVars, bodyVars>>

TypeInit ==
    /\ doc = MkDoc(MaxSchemas, "ok")
    /\ entry = "cli"
    /\ PipelineIdle
    /\ MapperIdle
    /\ ResolverIdle
    /\ TaggerIdle /\ RequestIdle /\ CrudIdle
    /\ WiringIdle /\ BodiesIdle
    /\ tyIn \in SchemaMaps
    /\ tyOut = <<>>

TypeNext == TypeGeneratorGenerateTypes

TypeSpec == TypeInit /\ [][TypeNext]_vars

(***************************************************************************)
(* Properties of the domain type builder (TypeSpec)                        *)
(***************************************************************************)
\* the value a tag string gives to a key, "" when the key is not in it
TagValue(tags, key) ==
    LET i == StringsIndex(tags, key \o ":\"")
    IN  IF i = 0 THEN ""
        ELSE LET rest == SubSeq(tags, i + Len(key) + 2, Len(tags))
             IN  SubSeq(rest, 1, StringsIndex(rest, "\"") - 1)

\* a sequence of strings ascends strictly in byte order
Ascending(q) == \A i \in 1..(Len(q) - 1) : StrLess(q[i], q[i + 1])

\* C11: the list of type definitions does not depend on the order in which the schema
\* map and the property maps are iterated: the definitions come in ascending order of
\* schema name, one for every schema, the fields of each in ascending order of source
\* property name, and two calls on the same input give the same list.
C11_Deterministic ==
    \A c \in 1..Len(tyOut) :
        LET Types == tyOut[c].Types
        IN  /\ Ascending([i \in 1..Len(Types) |-> Types[i].Name])
            /\ {Types[i].Name : i \in 1..Len(Types)} = DOMAIN tyIn
            /\ \A i \in 1..Len(Types) :
                  Ascending([j \in 1..Len(Types[i].Fields) |->
                                TagValue(Types[i].Fields[j].Tags, "json")])
            /\ tyOut[c] = tyOut[1]

\* two calls on a document with the schemas Pet and User, Pet with the properties
\* created_at and id, have both returned Pet before User and created_at before id
C11_Witness ==
    /\ Len(tyOut) = 2
    /\ DOMAIN tyIn = {"Pet", "User"}
    /\ tyIn["Pet"].type = "object"
    /\ DOMAIN tyIn["Pet"].Properties = {"id", "created_at"}
    /\ Len(tyOut[2].Types) = 2
    /\ tyOut[2].Types[1].Name = "Pet"
    /\ Len(tyOut[2].Types[1].Fields) = 2
    /\ tyOut[2].Types[1].Fields[1].Name = "CreatedAt"
    /\ tyOut[2].Types[1].Fields[2].Name = "ID"

\* the tag string starts with bson:"p" json:"p" and goes on, if at all, with validate
C12_TagsOf(tags, p) ==
    LET pair == "bson:\"" \o p \o "\" json:\"" \o p \o "\""
    IN  /\ HasPrefix(tags, pair)
        /\ Len(tags) > Len(pair) =>
              HasPrefix(SubSeq(tags, Len(pair) + 1, Len(tags)), " validate:\"")

C17_TimeImport ==
    \A c \in 1..Len(tyOut) :
        tyOut[c].HasTimeType
            <=> (\E i \in 1..Len(tyOut[c].Types) :
                    \E j \in 1..Len(tyOut[c].Types[i].Fields) :
                        StringsContains(tyOut[c].Types[i].Fields[j].Type, "time.Time"))

(***************************************************************************)
(* The request type of an operation.  HTTPGenerator.prepareOperationData   *)
(* finds the method under which the paths hold the operation, and, when    *)
(* the request body has a schema, names a request type after the operation *)
(* id and gives it one field per property of the schema.  The operation is *)
(* given by its id, its method, the properties of its body schema and the  *)
(* response type resolved for it; of the OperationData returned, the       *)
(* request type name, the request fields and the time import are kept.     *)
(* The success status is the operation resolver's part above; the          *)
(* parameters and the resolution of the response type are not represented. *)
(***************************************************************************)
IsUpper(c) == IndexIn(UpperAlpha, c) # 0
IsLetter(c) == IndexIn(LowerAlpha, c) # 0 \/ IsUpper(c)
IsDigit(c) == IndexIn(Digits, c) # 0

\* strings.TrimSpace, for the space character
RECURSIVE TrimSpace(_)
TrimSpace(s) ==
    IF Len(s) = 0 THEN s
    ELSE IF CharAt(s, 1) = " " THEN TrimSpace(SubSeq(s, 2, Len(s)))
    ELSE IF CharAt(s, Len(s)) = " " THEN TrimSpace(SubSeq(s, 1, Len(s) - 1))
    ELSE s

\* the two separator functions handed to strings.FieldsFunc
IsSeparator(kind, c) ==
    IF kind = "notAlnum" THEN ~IsLetter(c) /\ ~IsDigit(c) ELSE c \in {"_", "-"}

\* strings.FieldsFunc: the maximal runs of non-separators of s from position i on,
\* cur being the run under way
RECURSIVE FieldsFrom(_, _, _, _)
FieldsFrom(s, kind, i, cur) ==
    IF i > Len(s) THEN (IF cur = "" THEN <<>> ELSE <<cur>>)
    ELSE IF IsSeparator(kind, CharAt(s, i))
         THEN (IF cur = "" THEN <<>> ELSE <<cur>>) \o FieldsFrom(s, kind, i + 1, "")
         ELSE FieldsFrom(s, kind, i + 1, cur \o CharAt(s, i))

FieldsFunc(s, kind) == FieldsFrom(s, kind, 1, "")

\* strings.Title: the first letter of every word in upper case, a word starting at the
\* beginning and after every character that is no letter, digit or underscore
StringsTitle(s) ==
    LET starts(i) == i = 1 \/ (LET p == CharAt(s, i - 1)
                               IN  ~IsLetter(p) /\ ~IsDigit(p) /\ p # "_")
        out == [i \in 1..Len(s) |->
                   IF starts(i) THEN UpperChar(CharAt(s, i)) ELSE CharAt(s, i)]
    IN  StringsJoin(out, "")

ToCamelCase(s0) ==
    LET s == TrimSpace(s0)
    IN  IF s = "" THEN s
        ELSE LET parts == FieldsFunc(s, "notAlnum")
                 cased == [i \in 1..Len(parts) |->
                              IF i = 1 THEN ToLower(parts[i])
                              ELSE StringsTitle(ToLower(parts[i]))]
             IN  StringsJoin(cased, "")

ToPascalCase(s0) ==
    LET s == ToCamelCase(s0) IN IF s = "" THEN s ELSE StringsTitle(s)

\* the cut positions of SplitWords: the upper-case letters after the first character
RECURSIVE SplitAtUpper(_, _, _)
SplitAtUpper(s, lastPos, i) ==
    IF i > Len(s) THEN (IF lastPos <= Len(s) THEN <<SubSeq(s, lastPos, Len(s))>> ELSE <<>>)
    ELSE IF i > 1 /\ IsUpper(CharAt(s, i))
         THEN <<SubSeq(s, lastPos, i - 1)>> \o SplitAtUpper(s, i, i + 1)
         ELSE SplitAtUpper(s, lastPos, i + 1)

SplitWords(s) ==
    IF StringsContains(s, "_") \/ StringsContains(s, "-")
    THEN FieldsFunc(s, "underDash")
    ELSE SplitAtUpper(s, 1, 1)

ToGoFieldName(name) ==
    IF name = "id" THEN "ID"
    ELSE LET words == SplitWords(name)
         IN  StringsJoin([i \in 1..Len(words) |-> StringsTitle(words[i])], "")


\* the operations prepared: ids, the methods of a path item, body property names
OperationIDs == {"createUser", "update_user"}
Methods == {"POST", "PUT", "PATCH"}
BodyPropNames == {"id", "name", "created_at", "updated_at"}
\* property names in other spellings: two that convert to one identifier, a dash, a
\* capital
SpelledPropNames == {"user_id", "userId", "first-name", "Id"}

\* the property schemas of the request bodies: a string, a date-time, an array of
\* date-time, a map of date-time
BodySchemas ==
    <<Leaf("string", ""), Leaf("string", "date-time"),
      ArrayOf(Leaf("string", "date-time")), MapOf(Leaf("string", "date-time"))>>

\* a property of a body schema: 0 for a reference without Value, else a position
BodyRefs == 0..Len(BodySchemas)

\* the response types resolved for the operations
ResponseTypes == {"", "time.Time", "models.UserWithTime"}

\* the path items: the operation under one method, or under none
PathItems(opID) ==
    {[m \in Methods |-> IF m = at THEN opID ELSE ""] : at \in Methods \cup {"NONE"}}

\* the property names of one body schema
BodyNameSets ==
    {S \in SUBSET BodyPropNames : Cardinality(S) <= 3}
    \cup {S \in SUBSET SpelledPropNames : Cardinality(S) <= 2}

\* the request bodies: none, or a schema with up to three properties
RequestBodies ==
    {Nothing} \cup UNION {[names -> BodyRefs] : names \in BodyNameSets}

OperationInputs ==
    {[opID |-> o, pathItem |-> pi, body |-> b, responseType |-> r] :
        o \in OperationIDs, pi \in UNION {PathItems(o) : o \in OperationIDs},
        b \in RequestBodies, r \in ResponseTypes}

\* MapSchemaToGoType(propRef.Value) on a property whose link, if any, leads to a leaf
RequestGoType(schema) ==
    MapSchemaToGoType(schema,
                      IF schema.sub = Nothing THEN "" ELSE MapSchemaToGoType(schema.sub, ""))

\* the system fields are skipped whatever the method
SkippedAnyMethod(httpMethod, propName) ==
    propName = "id" \/ propName = "created_at" \/ propName = "updated_at"

\* the properties left out of the request fields
Skipped(httpMethod, propName) ==
    httpMethod = "POST"
        /\ (propName = "id" \/ propName = "created_at" \/ propName = "updated_at")

RequestField(propName, ref) ==
    [Name |-> ToGoFieldName(propName), Type |-> RequestGoType(BodySchemas[ref]),
     JsonTag |-> propName]

RequestFieldTable ==
    Tabulated([propName \in BodyPropNames \cup SpelledPropNames |->
                 Tabulated([ref \in BodyRefs \ {0} |-> RequestField(propName, ref)])])

\* the orders in which a range yields the properties of a body schema
BodyOrderings == Tabulated([S \in BodyNameSets |-> Orderings(S)])

ToPascalCaseTable == Tabulated([o \in OperationIDs |-> ToPascalCase(o)])

\* sort.Slice by Name, over the fields in the order the range appended them
RECURSIVE SortByName(_)
SortByName(fields) ==
    IF Len(fields) = 0 THEN <<>>
    ELSE LET sorted == SortByName(SubSeq(fields, 1, Len(fields) - 1))
             f == fields[Len(fields)]
             k == Cardinality({i \in 1..Len(sorted) : ~StrLess(f.Name, sorted[i].Name)})
         IN  SubSeq(sorted, 1, k) \o <<f>> \o SubSeq(sorted, k + 1, Len(sorted))

\* the method under which the path item holds the operation, "" when under none
HTTPMethodOf(pathItem, opID) ==
    IF \E m \in Methods : pathItem[m] = opID
    THEN CHOOSE m \in Methods : pathItem[m] = opID
    ELSE ""

\* the request fields of a body schema, its properties ranged over in the order porder
RequestFields(httpMethod, body, porder) ==
    LET ranged == RangeOrder(porder, DOMAIN body)
        kept == SelectSeq(ranged, LAMBDA p : body[p] # 0 /\ ~Skipped(httpMethod, p))
    IN  SortByName([i \in 1..Len(kept) |-> RequestFieldTable[kept[i]][body[kept[i]]]])

\* the time import of an operation
ImportTime(requestFields, hasResponseBody, responseType) ==
    \/ \E i \in 1..Len(requestFields) :
          \/ requestFields[i].Type = "time.Time"
          \/ HasPrefix(requestFields[i].Type, "[]time.Time")
    \/ /\ hasResponseBody
       /\ \/ responseType = "time.Time"
          \/ HasPrefix(responseType, "[]time.Time")
          \/ StringsContains(responseType, "time.Time")

OperationData(in, porder) ==
    LET httpMethod == HTTPMethodOf(in.pathItem, in.opID)
        hasSchema == in.body # Nothing
        requestFields == IF hasSchema THEN RequestFields(httpMethod, in.body, porder)
                         ELSE <<>>
    IN  IF httpMethod = ""
        THEN [err |-> "could not find method and path for operation " \o in.opID]
        ELSE [err |-> "",
              HTTPMethod |-> httpMethod,
              HasRequestBody |-> hasSchema,
              RequestTypeName |-> IF hasSchema THEN ToPascalCaseTable[in.opID] \o "Request"
                                  ELSE "",
              RequestFields |-> requestFields,
              ImportTime |-> ImportTime(requestFields, in.responseType # "",
                                        in.responseType)]

PrepareRequestData ==
    /\ reqIn # Nothing
    /\ reqOut = Nothing
    /\ \E porder \in BodyOrderings[IF reqIn.body = Nothing THEN {}
                                    ELSE DOMAIN reqIn.body] :
          reqOut' = OperationData(reqIn, porder)
    /\ UNCHANGED reqIn
    /\ UNCHANGED <<pipeVars, mapVars, opVars, tagVars, tyVars, crudVars, wireVars, bodyVars>>

ReqInit ==
    /\ doc = MkDoc(MaxSchemas, "ok")
    /\ entry = "cli"
    /\ PipelineIdle
    /\ MapperIdle
    /\ ResolverIdle
    /\ TaggerIdle /\ TypeBuilderIdle /\ CrudIdle
    /\ WiringIdle /\ BodiesIdle
    /\ reqIn \in OperationInputs
    /\ reqOut = Nothing

ReqNext == PrepareRequestData

ReqSpec == ReqInit /\ [][ReqNext]_vars


(***************************************************************************)
(* Properties of the request type (ReqSpec)                                *)
(***************************************************************************)
\* the operation was found and has a body schema
RequestSynthesized == reqOut # Nothing /\ reqOut.err = "" /\ reqOut.HasRequestBody

\* the properties of the body schema whose Value is set
BodyPresent == {p \in DOMAIN reqIn.body : reqIn.body[p] # 0}

\* the property names the request fields stand for
FieldTags == {reqOut.RequestFields[i].JsonTag : i \in 1..Len(reqOut.RequestFields)}

\* C14: the request fields of a POST operation have no field for the properties id,
\* created_at and updated_at and one field for every other property of the body
\* schema whose Value is set; under every other method every such property, these
\* three included, has one field.
C14_PostExclusion ==
    RequestSynthesized =>
        /\ Len(reqOut.RequestFields) = Cardinality(FieldTags)
        /\ FieldTags = IF reqOut.HTTPMethod = "POST"
                       THEN BodyPresent \ {"id", "created_at", "updated_at"}
                       ELSE BodyPresent
        /\ \A i \in 1..Len(reqOut.RequestFields) :
              LET f == reqOut.RequestFields[i]
              IN  f.Type = RequestGoType(BodySchemas[reqIn.body[f.JsonTag]])

\* a POST whose body has id, name and updated_at has got the one field Name
C14_Witness ==
    /\ RequestSynthesized
    /\ reqOut.HTTPMethod = "POST"
    /\ BodyPresent = {"id", "name", "updated_at"}
    /\ Len(reqOut.RequestFields) = 1
    /\ reqOut.RequestFields[1].Name = "Name"

\* C15: the operation createUser, a POST whose body schema has the properties id, name
\* and created_at, gets the request type CreateUserRequest, the Pascal case of its id
\* followed by Request, and the type has only the field for name.
C15_RequestTypeName ==
    (/\ RequestSynthesized
     /\ reqIn.opID = "createUser"
     /\ reqOut.HTTPMethod = "POST"
     /\ BodyPresent = {"id", "name", "created_at"}) =>
        /\ reqOut.RequestTypeName = "CreateUserRequest"
        /\ FieldTags = {"name"}



\* C25: the request fields are in ascending order of field identifier, and they are
\* the same list for every order in which the range yields the properties of the body
\* schema, also when two property names convert to one identifier.
C25_FieldOrder ==
    RequestSynthesized =>
        /\ \A i \in 1..(Len(reqOut.RequestFields) - 1) :
              ~StrLess(reqOut.RequestFields[i + 1].Name, reqOut.RequestFields[i].Name)
        /\ \A porder \in BodyOrderings[DOMAIN reqIn.body] :
              reqOut.RequestFields = RequestFields(reqOut.HTTPMethod, reqIn.body, porder)

\* C28: the identifier ToGoFieldName gives a property in the request type is the
\* identifier formatFieldName gives the same property in the domain type, for every
\* spelling of the property name.
C28_SameIdentifier ==
    RequestSynthesized =>
        \A i \in 1..Len(reqOut.RequestFields) :
            reqOut.RequestFields[i].Name = formatFieldName(reqOut.RequestFields[i].JsonTag)

(***************************************************************************)
(* The CRUD classification.  OpenAPIParser.GetCrudOperationsForSchema      *)
(* takes the operations of the document keyed by operation id, and for     *)
(* every one tagged with the schema name finds the field of a path item    *)
(* that holds that very operation: a GET is list or get by the shape of    *)
(* its response, a POST create, a PUT or PATCH update, a DELETE delete.    *)
(* An operation is identified by the place that holds it, a method of a    *)
(* path; the content of a response is the set of schema types of its media *)
(* types, "nil" for a media type without schema.                           *)
(***************************************************************************)
\* the places of the documents, in the order GetOperations visits the fields of one
\* path item
PathNames == {"/users", "/users/{id}"}
PlacesOf ==
    [p \in PathNames |->
        IF p = "/users" THEN <<[path |-> p, method |-> "GET"], [path |-> p, method |-> "POST"]>>
        ELSE <<[path |-> p, method |-> "GET"], [path |-> p, method |-> "PUT"]>>]
Places == UNION {Range(PlacesOf[p]) : p \in PathNames}

\* no operation at a place
NoOp == [absent |-> TRUE]

\* the contents of a response: no media type, a media type without schema, media
\* types of array schemas, of object schemas, of both
Contents == {{}, {"nil"}, {"array"}, {"object"}, {"array", "object"}}
ResponseCodes == {"200", "206"}
\* the responses of an operation: none, or one or both of the codes, the 206 response
\* with a schema
ResponseMaps ==
    UNION {{r \in [codes -> Contents] :
                "206" \in codes => r["206"] \in {{"array"}, {"object"}}} :
            codes \in SUBSET ResponseCodes}

Operation(id, tags, responses) == [OperationID |-> id, Tags |-> tags, Responses |-> responses]

\* the operations a place may hold
OperationsAt(place) ==
    CASE place = [path |-> "/users", method |-> "GET"] ->
            {Operation("listUsers", tags, r) :
                tags \in {<<"User">>, <<"Pet">>}, r \in ResponseMaps}
      [] place = [path |-> "/users/{id}", method |-> "GET"] ->
            {NoOp} \cup {Operation(id, <<"User">>, r) :
                            id \in {"getUser", "listUsers", ""}, r \in ResponseMaps}
      [] place = [path |-> "/users", method |-> "POST"] ->
            {NoOp, Operation("createUser", <<"User">>, <<>>)}
      [] OTHER ->
            {NoOp, Operation("updateUser", <<"Pet", "User">>, <<>>)}

GetUsers == [path |-> "/users", method |-> "GET"]
GetUser == [path |-> "/users/{id}", method |-> "GET"]

CrudDocuments ==
    {[pl \in Places |-> IF pl = GetUsers THEN a ELSE IF pl = GetUser THEN b
                        ELSE IF pl.method = "POST" THEN c ELSE d] :
        a \in OperationsAt(GetUsers), b \in OperationsAt(GetUser),
        c \in OperationsAt([path |-> "/users", method |-> "POST"]),
        d \in OperationsAt([path |-> "/users/{id}", method |-> "PUT"])}

\* the places in the order a range over the paths in the order porder visits them
Visited(porder) ==
    IF Len(porder) = 0 THEN <<>> ELSE PlacesOf[porder[1]] \o PlacesOf[porder[2]]

\* GetOperations in full: operation id -> the operation (its place) last stored under it
GetOperationsByID(d, porder) ==
    LET visited == SelectSeq(Visited(porder),
                             LAMBDA pl : d[pl] # NoOp /\ d[pl].OperationID # "")
        ids == {d[visited[i]].OperationID : i \in 1..Len(visited)}
        last(id) == CHOOSE i \in 1..Len(visited) :
                        /\ d[visited[i]].OperationID = id
                        /\ \A j \in (i + 1)..Len(visited) : d[visited[j]].OperationID # id
    IN  [id \in ids |-> visited[last(id)]]

\* isListOperation
isListOperation(operation) ==
    /\ "200" \in DOMAIN operation.Responses
    /\ "array" \in operation.Responses["200"]

\* the CRUD type of the operation at a place, by the field of the path item that holds it
CrudType(d, place) ==
    CASE place.method = "GET" -> IF isListOperation(d[place]) THEN "list" ELSE "get"
      [] place.method = "POST" -> "create"
      [] place.method \in {"PUT", "PATCH"} -> "update"
      [] place.method = "DELETE" -> "delete"
      [] OTHER -> ""

\* GetCrudOperationsForSchema, the paths ranged over in the order porder when the
\* operations are collected and the operations in the order oorder
GetCrudOperationsForSchema(d, schemaName, porder, oorder) ==
    LET operations == GetOperationsByID(d, porder)
        tagged == SelectSeq(oorder, LAMBDA opID :
                      /\ opID \in DOMAIN operations
                      /\ Contains(d[operations[opID]].Tags, schemaName)
                      /\ CrudType(d, operations[opID]) # "")
        type(i) == CrudType(d, operations[tagged[i]])
        types == {type(i) : i \in 1..Len(tagged)}
        last(t) == CHOOSE i \in 1..Len(tagged) :
                       type(i) = t /\ \A j \in (i + 1)..Len(tagged) : type(j) # t
    IN  [t \in types |-> tagged[last(t)]]

CrudOperationIDs == {"listUsers", "getUser", "createUser", "updateUser"}
SchemaNames == {"User", "Pet"}

CrudOrderings ==
    [paths |-> Tabulated([S \in {PathNames} |-> Orderings(S)])[PathNames],
     ops |-> Orderings(CrudOperationIDs)]

ParserGetCrudOperationsForSchema ==
    /\ crudIn # Nothing
    /\ crudOut = Nothing
    /\ \E schemaName \in SchemaNames, porder \in CrudOrderings.paths,
          oorder \in CrudOrderings.ops :
            crudOut' = [schemaName |-> schemaName,
                        result |-> GetCrudOperationsForSchema(crudIn, schemaName,
                                                              porder, oorder)]
    /\ UNCHANGED crudIn
    /\ UNCHANGED <<pipeVars, mapVars, opVars, tagVars, tyVars, reqVars, wireVars, bodyVars>>

CrudInit ==
    /\ doc = MkDoc(MaxSchemas, "ok")
    /\ entry = "cli"
    /\ PipelineIdle
    /\ MapperIdle
    /\ ResolverIdle
    /\ TaggerIdle /\ TypeBuilderIdle /\ RequestIdle
    /\ WiringIdle /\ BodiesIdle
    /\ crudIn \in CrudDocuments
    /\ crudOut = Nothing

CrudNext == ParserGetCrudOperationsForSchema

CrudSpec == CrudInit /\ [][CrudNext]_vars


(***************************************************************************)
(* Properties of the CRUD classification (CrudSpec)                        *)
(***************************************************************************)
\* the operation at a place declares a success response whose content has a schema of
\* type t and no success response whose content has a schema of another type
SuccessShape(place, t) ==
    /\ crudIn[place] # NoOp
    /\ \E code \in DOMAIN crudIn[place].Responses : crudIn[place].Responses[code] = {t}
    /\ \A code \in DOMAIN crudIn[place].Responses :
          crudIn[place].Responses[code] \in {{t}, {}, {"nil"}}

\* C16: when the tag User is carried by the GET operation listUsers, whose success
\* response has a content schema of type array, and by the GET operation getUser,
\* whose success response has a content schema of type object, the classification for
\* User maps list to listUsers and get to getUser.
C16_ListGetSplit ==
    (/\ crudOut # Nothing
     /\ crudOut.schemaName = "User"
     /\ SuccessShape(GetUsers, "array")
     /\ Contains(crudIn[GetUsers].Tags, "User")
     /\ SuccessShape(GetUser, "object")
     /\ crudIn[GetUser].OperationID = "getUser") =>
        /\ {"list", "get"} \subseteq DOMAIN crudOut.result
        /\ crudOut.result["list"] = "listUsers"
        /\ crudOut.result["get"] = "getUser"


(***************************************************************************)
(* Properties of the classification of each operation (CrudSpec) and of    *)
(* the response of an operation (OpSpec)                                   *)
(***************************************************************************)
\* the roles the method of a place may give
RolesOf(method) ==
    CASE method = "GET" -> {"list", "get"}
      [] method = "POST" -> {"create"}
      [] method \in {"PUT", "PATCH"} -> {"update"}
      [] method = "DELETE" -> {"delete"}
      [] OTHER -> {}

\* no two operations of the document have the same operation id
UniqueOperationIDs ==
    \A p1, p2 \in Places :
        (crudIn[p1] # NoOp /\ crudIn[p2] # NoOp /\ p1 # p2) =>
            crudIn[p1].OperationID # crudIn[p2].OperationID

\* C26: in a document whose operation ids are distinct, every operation with an operation id that carries the resource tag and sits in
\* the get, post, put, patch or delete field of a path item has its operation id in the
\* result under a role of its method, also when several operations of the tag have the
\* same role; an operation id in the result belongs to an operation that carries the tag.
C26_EveryOperationClassified ==
    (crudOut # Nothing /\ UniqueOperationIDs) =>
        /\ \A pl \in Places :
              (/\ crudIn[pl] # NoOp
               /\ crudIn[pl].OperationID # ""
               /\ Contains(crudIn[pl].Tags, crudOut.schemaName)) =>
                  \E role \in RolesOf(pl.method) \cap DOMAIN crudOut.result :
                      crudOut.result[role] = crudIn[pl].OperationID
        /\ \A role \in DOMAIN crudOut.result :
              \E pl \in Places :
                  /\ crudIn[pl] # NoOp
                  /\ crudIn[pl].OperationID = crudOut.result[role]
                  /\ Contains(crudIn[pl].Tags, crudOut.schemaName)

\* C27: the success status and the response body flag returned for an operation are the
\* ones every declared response whose code begins with '2' gives, so that they do not
\* depend on the order in which the range visits the responses.
C27_ResponseDeterministic ==
    opOut.state = "returned" =>
        \A code \in DOMAIN opIn.responses :
            IsSuccessCode(code) => opOut = ResolveStatus(opIn, code)


(***************************************************************************)
(* Properties of the wiring files (Spec)                                   *)
(***************************************************************************)
\* C29: when a run has ended without error, every resource that the data of a routing
\* or database wiring file written by the run marks as having a repository, a service
\* or a handler has the files of that artifact in the output directory; a run that the
\* schema filter restricts to one schema marks no other schema.
C29_WiringRefersToGenerated ==
    pc = "done" =>
        \A p \in DerivedPaths \cap wrote :
            \A r \in fs[p].data.Resources :
                /\ r.HasRepository => \A q \in RepositoryPaths(r.Name) : Exists(fs, q)
                /\ r.HasService => \A q \in ServicePaths(r.Name) : Exists(fs, q)
                /\ r.HasHandler => \A q \in HandlerPaths(r.Name) : Exists(fs, q)


(***************************************************************************)
(* The wiring data in order.  Each of GenerateMainFile, GenerateRoutesFile *)
(* and GenerateDatabaseFile builds its resource list by a range over the   *)
(* schema map of the parser; the pipeline above holds the list as a set,   *)
(* here it is the sequence the template gets, one range order per file and *)
(* call.                                                                   *)
(***************************************************************************)
WiringFiles == {"main.go", "routes.go", "database.go"}

WiringTemplate(n) == "templates/cmd/" \o n \o ".tmpl"

\* the MainTemplateData of one file, the range yielding the schema names as `order`
OrderedTemplateData(order, useMongo, hasRepo, hasServices, hasHandler) ==
    [UseMongo |-> useMongo,
     HasResources |-> Len(order) > 0,
     Resources |-> [i \in 1..Len(order) |->
                       MainResourceData(order[i], hasRepo, hasServices, hasHandler)]]

\* the schema maps and flag sets the generator is called with
WiringInputs ==
    [schemas : SUBSET PoolNames, useMongo : BOOLEAN, hasRepo : BOOLEAN,
     hasServices : BOOLEAN, hasHandler : BOOLEAN]

\* the orders of the three ranges of one call
WiringOrders(names) == [WiringFiles -> Orderings(names)]

\* MainGenerator.GenerateWithFeatures: filename -> template and data
MainGeneratorGenerateWithFeatures ==
    /\ wireIn # Nothing
    /\ Len(wireOut) < MaxCalls
    /\ \E orders \in WiringOrders(wireIn.schemas) :
          wireOut' = Append(wireOut,
              [n \in WiringFiles |->
                  Rendered(WiringTemplate(n),
                           OrderedTemplateData(orders[n], wireIn.useMongo, wireIn.hasRepo,
                                               wireIn.hasServices, wireIn.hasHandler))])
    /\ UNCHANGED wireIn
    /\ UNCHANGED <<pipeVars, mapVars, opVars, tagVars, tyVars, reqVars, crudVars, bodyVars>>

WireInit ==
    /\ doc = MkDoc(MaxSchemas, "ok")
    /\ entry = "cli"
    /\ PipelineIdle
    /\ MapperIdle
    /\ ResolverIdle
    /\ TaggerIdle /\ TypeBuilderIdle /\ RequestIdle /\ CrudIdle /\ BodiesIdle
    /\ wireIn \in WiringInputs
    /\ wireOut = <<>>

WireNext == MainGeneratorGenerateWithFeatures

WireSpec == WireInit /\ [][WireNext]_vars

\* C30: for a fixed schema map and flag set, every call hands the same ordered resource
\* list to the entrypoint, routing and database templates, whatever the order in which
\* the ranges visit the schema map.
C30_WiringDeterministic ==
    \A c \in 1..Len(wireOut) : wireOut[c] = wireOut[1]


(***************************************************************************)
(* The bodies of an operation.  HTTPGenerator.prepareOperationData picks,  *)
(* for the request body and for the success response, the schema of one    *)
(* declared media type, application/json before any other, names the       *)
(* request type, and resolves the response schema to a type expression: by *)
(* the name of the reference, by the reference of the array items, or by   *)
(* the type mapper with the package name put before a bare name.  The      *)
(* operation is a PUT with the id createPet; the response is the one the   *)
(* range over the responses met first (the operation resolver's part).     *)
(* A media type is NoSchema or the reference of its schema: Ref, the       *)
(* schema Value and the Ref of the items of an array.                      *)
(***************************************************************************)
\* config.DefaultAPIPackage, the default of the package flag
PackageName == "api"

JSON == "application/json"
RequestMediaTypes == {JSON, "application/xml", "text/plain"}
ResponseMediaTypes == {JSON, "application/xml"}

\* mediaType.Schema == nil
NoSchema == [noSchema |-> TRUE]

SchemaRef(ref, itemsRef, value) == [Ref |-> ref, ItemsRef |-> itemsRef, Value |-> value]

PetRef == "#/components/schemas/Pet"

\* the schemas of request media types, as the properties of each: two schemas that
\* differ in their one property
RequestSchemas == {[name |-> 1], [created_at |-> 2]}

\* the schemas of response media types
ResponseSchemas ==
    {SchemaRef(PetRef, "", ObjectWith(Leaf("string", ""))),
     SchemaRef("", PetRef, ArrayOf(ObjectWith(Leaf("string", "")))),
     SchemaRef("", "", ObjectWith(Leaf("string", ""))),
     SchemaRef("", "", ArrayOf(Leaf("string", ""))),
     SchemaRef("", "", MapOf(Leaf("string", ""))),
     SchemaRef("", "", Leaf("string", "")),
     SchemaRef("", "", Leaf("string", "date-time")),
     SchemaRef("", "", Leaf("integer", "int32")),
     SchemaRef("", "", Leaf("number", "float")),
     SchemaRef("", "", Leaf("boolean", ""))}

\* a body: nil, or the content, media type -> NoSchema or schema
ContentsOver(mediaTypes, schemas) ==
    UNION {[cts -> {NoSchema} \cup schemas] : cts \in SUBSET mediaTypes}

BodyInputs ==
    [requestBody : {Nothing} \cup ContentsOver(RequestMediaTypes, RequestSchemas),
     response : {Nothing} \cup ContentsOver(ResponseMediaTypes, ResponseSchemas)]

\* the "Find the content type (prefer application/json)" loop: the media type whose
\* schema is taken when the range yields the media types as morder from position i on,
\* contentType being the one taken so far; "" when no media type has a schema
RECURSIVE ChosenFrom(_, _, _, _)
ChosenFrom(content, morder, i, contentType) ==
    IF i > Len(morder) THEN contentType
    ELSE LET ct == morder[i]
         IN  IF content[ct] # NoSchema /\ (ct = JSON \/ contentType = "")
             THEN ChosenFrom(content, morder, i + 1, ct)
             ELSE ChosenFrom(content, morder, i + 1, contentType)

\* the same loop keeping the first media type with a schema, whichever it is
ChosenMediaTypeFirst(content, morder) ==
    LET with == SelectSeq(morder, LAMBDA ct : content[ct] # NoSchema)
    IN  IF Len(with) = 0 THEN "" ELSE with[1]

ChosenMediaType(content, morder) == ChosenFrom(content, morder, 1, "")

\* the last part of a reference
TypeNameOf(ref) ==
    LET parts == StringsSplit(ref, "/") IN parts[Len(parts)]

\* the types the resolver leaves without package name
Unqualified ==
    {"string", "int", "bool", "float64", "interface{}", "map[string]interface{}"}

\* the response type of the schema taken from the content
ResponseType(content, chosen) ==
    LET schema == content[chosen]
        mapped == RequestGoType(schema.Value)
    IN  IF JSON \in DOMAIN content /\ content[JSON] # NoSchema /\ content[JSON].Ref # ""
        THEN PackageName \o "." \o TypeNameOf(content[JSON].Ref)
        ELSE IF schema.Value.items # 0 /\ schema.ItemsRef # ""
        THEN "[]" \o PackageName \o "." \o TypeNameOf(schema.ItemsRef)
        ELSE IF /\ ~StringsContains(mapped, ".")
                /\ mapped \notin Unqualified
                /\ ~HasPrefix(mapped, "[]")
        THEN PackageName \o "." \o mapped
        ELSE mapped

ResponseTypeTable ==
    Tabulated([content \in ContentsOver(ResponseMediaTypes, ResponseSchemas) |->
        Tabulated([chosen \in {ct \in DOMAIN content : content[ct] # NoSchema} |->
            ResponseType(content, chosen)])])

BodyOperationID == "createPet"
BodyRequestTypeName == ToPascalCase(BodyOperationID) \o "Request"

\* the OperationData of the bodies, the ranges over the media types of the request body
\* and of the response yielding them as rorder and sorder; with it the two locals
\* contentType, the media types whose schemas were taken
BodiesData(in, rorder, sorder) ==
    LET hasRequestBody == in.requestBody # Nothing
        rchosen == IF hasRequestBody THEN ChosenMediaType(in.requestBody, rorder) ELSE ""
        hasResponseBody == in.response # Nothing /\ DOMAIN in.response # {}
        schosen == IF hasResponseBody THEN ChosenMediaType(in.response, sorder) ELSE ""
    IN  [HasRequestBody |-> hasRequestBody,
         requestContentType |-> rchosen,
         RequestTypeName |-> IF rchosen # "" THEN BodyRequestTypeName ELSE "",
         RequestFields |->
            IF rchosen # ""
            THEN LET body == in.requestBody[rchosen]
                 IN  RequestFields("PUT", body, CHOOSE o \in BodyOrderings[DOMAIN body] : TRUE)
            ELSE <<>>,
         HasResponseBody |-> hasResponseBody,
         responseContentType |-> schosen,
         ResponseType |-> IF schosen # "" THEN ResponseTypeTable[in.response][schosen] ELSE ""]

MediaOrders(content) == IF content = Nothing THEN {<<>>} ELSE Orderings(DOMAIN content)

PrepareBodies ==
    /\ bodyIn # Nothing
    /\ bodyOut = Nothing
    /\ \E rorder \in MediaOrders(bodyIn.requestBody), sorder \in MediaOrders(bodyIn.response) :
          bodyOut' = BodiesData(bodyIn, rorder, sorder)
    /\ UNCHANGED bodyIn
    /\ UNCHANGED <<pipeVars, mapVars, opVars, tagVars, tyVars, reqVars, crudVars, wireVars>>

BodyInit ==
    /\ doc = MkDoc(MaxSchemas, "ok")
    /\ entry = "cli"
    /\ PipelineIdle
    /\ MapperIdle
    /\ ResolverIdle
    /\ TaggerIdle /\ TypeBuilderIdle /\ RequestIdle /\ CrudIdle /\ WiringIdle
    /\ bodyIn \in BodyInputs
    /\ bodyOut = Nothing

BodyNext == PrepareBodies

BodySpec == BodyInit /\ [][BodyNext]_vars


(***************************************************************************)
(* Properties of the bodies of an operation (BodySpec)                     *)
(***************************************************************************)
\* C21: a resolved operation either has no request body, with HasRequestBody false, an
\* empty request type name and no request fields, or has a synthesized request type,
\* with HasRequestBody true and a request type name that is not empty; a request body
\* none of whose media types has a schema does not give HasRequestBody true with an
\* empty name.
C21_RequestBodyInvariant ==
    bodyOut # Nothing =>
        \/ /\ ~bodyOut.HasRequestBody
           /\ bodyOut.RequestTypeName = ""
           /\ bodyOut.RequestFields = <<>>
        \/ /\ bodyOut.HasRequestBody
           /\ bodyOut.RequestTypeName # ""

\* the content declares application/json with a schema
JsonHasSchema(content) == JSON \in DOMAIN content /\ content[JSON] # NoSchema

\* the media type taken from a content is application/json when that has a schema,
\* and else one of the media types that have a schema, if any
PrefersJson(content, contentType) ==
    IF JsonHasSchema(content) THEN contentType = JSON
    ELSE IF \E ct \in DOMAIN content : content[ct] # NoSchema
         THEN contentType \in DOMAIN content /\ content[contentType] # NoSchema
         ELSE contentType = ""

\* C22: of the media types a request body or a success response declares, the schema
\* used is the one of application/json whenever that has a schema, whatever the order
\* in which the range yields the media types; the schema of another media type is used
\* only when application/json has none.
C22_JsonPreferred ==
    bodyOut # Nothing =>
        /\ bodyOut.HasRequestBody =>
              /\ PrefersJson(bodyIn.requestBody, bodyOut.requestContentType)
              /\ bodyOut.requestContentType # "" =>
                    \A i \in 1..Len(bodyOut.RequestFields) :
                        bodyOut.RequestFields[i].JsonTag
                            \in DOMAIN bodyIn.requestBody[bodyOut.requestContentType]
        /\ bodyOut.HasResponseBody =>
              PrefersJson(bodyIn.response, bodyOut.responseContentType)

\* a request body with three media types that all have a schema, application/json the
\* one with the property name, has given the request type the field of name
C22_Witness ==
    /\ bodyOut # Nothing
    /\ bodyIn.requestBody # Nothing
    /\ DOMAIN bodyIn.requestBody = RequestMediaTypes
    /\ bodyIn.requestBody[JSON] = [name |-> 1]
    /\ \A ct \in RequestMediaTypes \ {JSON} : bodyIn.requestBody[ct] = [created_at |-> 2]
    /\ Len(bodyOut.RequestFields) = 1
    /\ bodyOut.RequestFields[1].JsonTag = "name"

\* the schema taken for the response
TakenSchema == bodyIn.response[bodyOut.responseContentType]
ResponseResolved == bodyOut # Nothing /\ bodyOut.responseContentType # ""

\* C23: when the schema taken for the success response is a reference to a named
\* schema, the response type is the package name, a dot and the name of the referenced
\* schema; when it is an array whose items are a reference, the response type is []
\* followed by that qualified name.
C23_ReferenceResolution ==
    ResponseResolved =>
        /\ TakenSchema.Ref # "" =>
              bodyOut.ResponseType = PackageName \o "." \o "Pet"
        /\ (TakenSchema.Ref = "" /\ TakenSchema.ItemsRef # "") =>
              bodyOut.ResponseType = "[]" \o PackageName \o "." \o "Pet"

\* the type expressions of primitives and builtins
Builtin(t) ==
    \/ t \in {"string", "bool", "int", "int32", "int64", "float32", "float64",
              "time.Time", "interface{}"}
    \/ HasPrefix(t, "[]")
    \/ HasPrefix(t, "map[string]")

\* C24: a response schema without reference that the type mapper resolves to a
\* primitive or builtin keeps the mapper's type expression as its response type; the
\* package name is put only before a bare name that is no primitive or builtin.
C24_Qualification ==
    (ResponseResolved /\ TakenSchema.Ref = "" /\ TakenSchema.ItemsRef = "") =>
        LET mapped == RequestGoType(TakenSchema.Value)
        IN  bodyOut.ResponseType =
                IF Builtin(mapped) THEN mapped ELSE PackageName \o "." \o mapped

====
